---- MODULE Spec2Model ----
(***************************************************************************)
(* A model of the ordcode/biord codec: the double-ended byte buffer        *)
(* (buf.rs), the order-preserving primitive codecs (primitives.rs), the    *)
(* prefix-free byte-sequence escaper (bytes_esc.rs), the varint codec      *)
(* (varint.rs), the size calculator (hint_ser.rs) and the structured       *)
(* serializer / deserializer (ord_ser.rs, ord_de.rs).                      *)
(*                                                                         *)
(* Bytes are the numbers 0..255, byte slices are sequences of bytes.       *)
(* Cursors (head, tail) are 0-based offsets as in the source; sequences    *)
(* are 1-based, so slice[a..b) is SubSeq(s, a + 1, b).                     *)
(***************************************************************************)
EXTENDS Integers, Sequences, FiniteSets, TLC

VARIABLES
    wr,        \* DeBytesWriter { buf, head, tail }
    op,        \* the last call on the writer: its name, argument, result, return value
    headLog,   \* history: the bytes of the successful head writes, in write order
    tailLog,   \* history: the bytes of the successful tail writes, as laid out at the tail
    nfin,      \* history: the number of finalize() calls so far
    vecw,      \* a Vec<u8> the primitive encoders write into
    written,   \* history: one record per encoder call (its input, order and output)
    rdOpen,    \* whether a DeBytesReader has been constructed over vecw
    rd,        \* DeBytesReader { buf }: the remaining slice
    outs,      \* the results of the decode calls on rd, in call order
    sval,      \* the value handed to the structured serializer, its schema and preset
    pc,        \* the position of the serialize / deserialize run
    swr,       \* the DeBytesWriter the Serializer writes into
    ssize,     \* the size SizeCalc computed
    sres,      \* the result of the Serializer run, then of finalize
    srd,       \* the DeBytesReader the Deserializer reads from
    dval       \* the result of the Deserializer run

bufVars == <<wr, op, headLog, tailLog, nfin>>
encVars == <<vecw, written, rdOpen, rd, outs>>
serVars == <<sval, pc, swr, ssize, sres, srd, dval>>
vars == <<wr, op, headLog, tailLog, nfin, vecw, written, rdOpen, rd, outs,
          sval, pc, swr, ssize, sres, srd, dval>>

(***************************************************************************)
(* Bounds of the model.                                                    *)
(***************************************************************************)
\* the longest slice a DeBytesWriter is constructed over
MaxBuf == 4
\* the longest argument of one write / write_tail call
MaxArg == 2
\* the most finalize() calls in one run
MaxFin == 2

(***************************************************************************)
(* Sequences of bytes.                                                     *)
(***************************************************************************)
SeqsUpTo(S, n) == UNION {[1..k -> S] : k \in 0..n}

Zeros(n) == [i \in 1..n |-> 0]

\* memcmp-style lexicographic comparison of two byte strings: -1, 0 or 1;
\* a proper prefix sorts first
RECURSIVE LexCmp(_, _)
LexCmp(s, t) ==
    IF s = <<>> /\ t = <<>> THEN 0
    ELSE IF s = <<>> THEN -1
    ELSE IF t = <<>> THEN 1
    ELSE IF Head(s) < Head(t) THEN -1
    ELSE IF Head(s) > Head(t) THEN 1
    ELSE LexCmp(Tail(s), Tail(t))

IntCmp(a, b) == IF a < b THEN -1 ELSE IF a > b THEN 1 ELSE 0

\* !b on a u8
NotByte(b) == 255 - b

Complement(s) == [i \in 1..Len(s) |-> NotByte(s[i])]

(***************************************************************************)
(* buf.rs: DeBytesWriter.                                                  *)
(***************************************************************************)
DeBytesWriter_new(b) == [buf |-> b, head |-> 0, tail |-> Len(b)]

\* the overflow test of write(): the write would make the cursors cross
WriteOverflows_loose(w, v) == (w.head + Len(v)) >= w.tail

WriteOverflows(w, v) == (w.head + Len(v)) > w.tail

WriteTailOverflows_unchecked(w, v) == Len(v) > w.tail

WriteTailOverflows(w, v) == (w.head + Len(v)) > w.tail

\* a copy that lands one byte further on
CopyFromSlice_shifted(b, at, v) ==
    [i \in 1..Len(b) |-> IF i > at + 1 /\ i <= at + 1 + Len(v) THEN v[i - at - 1] ELSE b[i]]

\* buf[at..at+len(v)).copy_from_slice(v)
CopyFromSlice(b, at, v) ==
    [i \in 1..Len(b) |-> IF i > at /\ i <= at + Len(v) THEN v[i - at] ELSE b[i]]

\* buf.copy_within(src.., dest): memmove of buf[src..) to buf[dest..)
CopyWithin(b, src, dest) ==
    [i \in 1..Len(b) |->
        IF i > dest /\ i <= dest + (Len(b) - src) THEN b[src + (i - dest)] ELSE b[i]]

DeBytesWriter_write(w, v) ==
    IF WriteOverflows(w, v)
    THEN [w |-> w, res |-> "BufferOverflow"]
    ELSE [w |-> [w EXCEPT !.buf = CopyFromSlice(w.buf, w.head, v),
                          !.head = w.head + Len(v)],
          res |-> "Ok"]

DeBytesWriter_write_tail(w, v) ==
    IF WriteTailOverflows(w, v)
    THEN [w |-> w, res |-> "BufferOverflow"]
    ELSE LET end_offs == w.tail - Len(v)
         IN  [w |-> [w EXCEPT !.buf = CopyFromSlice(w.buf, end_offs, v),
                              !.tail = end_offs],
              res |-> "Ok"]

DeBytesWriter_finalize_nocollapse(w) == [w |-> w, ret |-> Len(w.buf)]

DeBytesWriter_finalize(w) ==
    IF w.head = w.tail
    THEN [w |-> w, ret |-> Len(w.buf)]
    ELSE [w |-> [w EXCEPT !.buf = CopyWithin(w.buf, w.tail, w.head),
                          !.head = w.tail],
          ret |-> Len(w.buf) - (w.tail - w.head)]

DeBytesWriter_is_complete(w) == IF w.head = w.tail THEN "Ok" ELSE "BufferUnderflow"

(***************************************************************************)
(* The double-ended writer as a state machine: any sequence of write,      *)
(* write_tail and finalize calls on one DeBytesWriter.                     *)
(***************************************************************************)
\* the bytes the callers write (b"a", b"1" of test_debuffer)
ArgBytes == {97, 49}

WriteArgs == SeqsUpTo(ArgBytes, MaxArg)

BufIdle ==
    /\ wr = DeBytesWriter_new(<<>>)
    /\ op = [name |-> "new", arg |-> <<>>, res |-> "Ok", ret |-> 0]
    /\ headLog = <<>>
    /\ tailLog = <<>>
    /\ nfin = 0

EncIdle ==
    /\ vecw = <<>>
    /\ written = <<>>
    /\ rdOpen = FALSE
    /\ rd = <<>>
    /\ outs = <<>>

NoValue == [k |-> "unit", w |-> 0, s |-> FALSE, n |-> 0, b |-> <<>>, f |-> <<>>]

SerIdle ==
    /\ sval = [v |-> NoValue, t |-> NoValue, p |-> "AscendingOrder"]
    /\ pc = "idle"
    /\ swr = DeBytesWriter_new(<<>>)
    /\ ssize = 0
    /\ sres = [res |-> "Ok", ret |-> 0]
    /\ srd = <<>>
    /\ dval = [res |-> "Ok", v |-> NoValue, lens |-> <<>>]

Init ==
    /\ \E n \in 0..MaxBuf : wr = DeBytesWriter_new(Zeros(n))
    /\ op = [name |-> "new", arg |-> <<>>, res |-> "Ok", ret |-> 0]
    /\ headLog = <<>>
    /\ tailLog = <<>>
    /\ nfin = 0
    /\ EncIdle
    /\ SerIdle

Write ==
    \E v \in WriteArgs :
        LET r == DeBytesWriter_write(wr, v)
        IN  /\ wr' = r.w
            /\ op' = [name |-> "write", arg |-> v, res |-> r.res, ret |-> 0]
            /\ headLog' = IF r.res = "Ok" THEN headLog \o v ELSE headLog
            /\ UNCHANGED <<tailLog, nfin>>
            /\ UNCHANGED encVars
            /\ UNCHANGED serVars

WriteTail ==
    \E v \in WriteArgs :
        LET r == DeBytesWriter_write_tail(wr, v)
        IN  /\ wr' = r.w
            /\ op' = [name |-> "write_tail", arg |-> v, res |-> r.res, ret |-> 0]
            /\ tailLog' = IF r.res = "Ok" THEN v \o tailLog ELSE tailLog
            /\ UNCHANGED <<headLog, nfin>>
            /\ UNCHANGED encVars
            /\ UNCHANGED serVars

Finalize ==
    /\ nfin < MaxFin
    /\ LET r == DeBytesWriter_finalize(wr)
       IN  /\ wr' = r.w
           /\ op' = [name |-> "finalize", arg |-> <<>>, res |-> "Ok", ret |-> r.ret]
    /\ nfin' = nfin + 1
    /\ UNCHANGED <<headLog, tailLog>>
    /\ UNCHANGED encVars
    /\ UNCHANGED serVars

Next == Write \/ WriteTail \/ Finalize

Spec == Init /\ [][Next]_vars

(***************************************************************************)
(* buf.rs: DeBytesReader, and Vec<u8> as a writer.                         *)
(***************************************************************************)
DeBytesReader_new(b) == b

\* self.buf = &self.buf[n..]
DeBytesReader_advance(b, n) == SubSeq(b, n + 1, Len(b))

\* advance_tail cutting at the front instead
DeBytesReader_advance_tail_front(b, n) == SubSeq(b, n + 1, Len(b))

\* self.buf = &self.buf[..self.buf.len() - n]
DeBytesReader_advance_tail(b, n) == SubSeq(b, 1, Len(b) - n)

\* the inspector closures handed to peek / read: one that returns Ok with
\* the slice it was given, one that returns an error of its own
Inspectors == {"ok", "err"}

Inspect(f, bytes) ==
    IF f = "ok" THEN [res |-> "Ok", val |-> bytes]
    ELSE [res |-> "InvalidUtf8Encoding", val |-> <<>>]

\* <DeBytesReader as ReadBytes>::peek; called: f has been called
DeBytesReader_peek(b, n, f) ==
    IF n <= Len(b)
    THEN [res |-> Inspect(f, SubSeq(b, 1, n)).res,
          val |-> Inspect(f, SubSeq(b, 1, n)).val, called |-> TRUE]
    ELSE [res |-> "PrematureEndOfInput", val |-> <<>>, called |-> FALSE]

\* a peek_tail that looks at the front of the buffer
DeBytesReader_peek_tail_front(b, n, f) ==
    IF n <= Len(b)
    THEN [res |-> Inspect(f, SubSeq(b, 1, n)).res,
          val |-> Inspect(f, SubSeq(b, 1, n)).val, called |-> TRUE]
    ELSE [res |-> "PrematureEndOfInput", val |-> <<>>, called |-> FALSE]

\* <DeBytesReader as TailReadBytes>::peek_tail
DeBytesReader_peek_tail(b, n, f) ==
    IF n <= Len(b)
    THEN [res |-> Inspect(f, SubSeq(b, Len(b) - n + 1, Len(b))).res,
          val |-> Inspect(f, SubSeq(b, Len(b) - n + 1, Len(b))).val, called |-> TRUE]
    ELSE [res |-> "PrematureEndOfInput", val |-> <<>>, called |-> FALSE]

\* a read that advances whatever peek returned
ReadBytes_read_f_eager(b, n, f) ==
    LET r == DeBytesReader_peek(b, n, f)
    IN  [res |-> r.res, val |-> r.val, called |-> r.called,
         rd |-> DeBytesReader_advance(b, IF n <= Len(b) THEN n ELSE Len(b))]

\* ReadBytes::read(n, f): let r = self.peek(n, f)?; self.advance(n); Ok(r)
ReadBytes_read_f(b, n, f) ==
    LET r == DeBytesReader_peek(b, n, f)
    IN  IF r.res # "Ok" THEN [res |-> r.res, val |-> <<>>, called |-> r.called, rd |-> b]
        ELSE [res |-> "Ok", val |-> r.val, called |-> r.called,
              rd |-> DeBytesReader_advance(b, n)]

\* TailReadBytes::read_tail(n, f)
TailReadBytes_read_tail(b, n, f) ==
    LET r == DeBytesReader_peek_tail(b, n, f)
    IN  IF r.res # "Ok" THEN [res |-> r.res, val |-> <<>>, called |-> r.called, rd |-> b]
        ELSE [res |-> "Ok", val |-> r.val, called |-> r.called,
              rd |-> DeBytesReader_advance_tail(b, n)]

\* ReadBytes::is_complete on a DeBytesReader
DeBytesReader_is_complete(b) == IF b = <<>> THEN "Ok" ELSE "BufferUnderflow"

\* <Vec<u8> as WriteBytes>::write: extend_from_slice
Vec_write(vec, v) == vec \o v

RECURSIVE Flatten(_)
Flatten(chunks) ==
    IF chunks = <<>> THEN <<>> ELSE Head(chunks) \o Flatten(Tail(chunks))

(***************************************************************************)
(* primitives.rs: ordered serialization of integers.  An integer type is   *)
(* its width in bytes (w) and its signedness (s); the macro serialize_int! *)
(* is instantiated alike for every width.                                  *)
(***************************************************************************)
Orders == {"Ascending", "Descending"}

\* ord_cond!(order, desc, asc)
OrdCond(order, desc, asc) == IF order = "Descending" THEN desc ELSE asc

RECURSIVE BitXor(_, _)
BitXor(a, b) ==
    IF a = 0 /\ b = 0 THEN 0
    ELSE (((a % 2) + (b % 2)) % 2) + 2 * BitXor(a \div 2, b \div 2)

\* `as $ut`: the two's complement bit pattern of a w-byte integer
AsUnsigned(v, w) == v % (2 ^ (8 * w))

\* `as $it`: the signed reading of a w-byte bit pattern
AsSigned(u, w) == IF u >= 2 ^ (8 * w - 1) THEN u - 2 ^ (8 * w) ELSE u

\* the bit pattern of <$it>::min_value()
MinValueBits(w) == 2 ^ (8 * w - 1)

\* !value on a w-byte unsigned
NotInt(u, w) == BitXor(u, 2 ^ (8 * w) - 1)

to_be_bytes(u, w) == [i \in 1..w |-> ((u \div (256 ^ (w - i))) % 256)]

RECURSIVE from_be_bytes(_)
from_be_bytes(b) ==
    IF b = <<>> THEN 0 ELSE b[Len(b)] + 256 * from_be_bytes(SubSeq(b, 1, Len(b) - 1))

\* $ufn: the bytes written for an unsigned value
serialize_uint(value, w, order) ==
    to_be_bytes(OrdCond(order, NotInt(value, w), value), w)

\* (value ^ <$it>::min_value()) as $ut
SignFlip_missing(value, w) == AsUnsigned(value, w)

SignFlip(value, w) == BitXor(AsUnsigned(value, w), MinValueBits(w))

\* $ifn: the bytes written for a signed value
serialize_sint(value, w, order) == serialize_uint(SignFlip(value, w), w, order)

serialize_int(value, t, order) ==
    IF t.s THEN serialize_sint(value, t.w, order) ELSE serialize_uint(value, t.w, order)

(***************************************************************************)
(* Machine words at their full width.  A word of n bits (u32, u64, i32,    *)
(* i64, the bits of an f32 or f64) is the sequence of its bits, w[1] the   *)
(* least significant; shifts drop the bits that leave the word.            *)
(***************************************************************************)
WordZero(n) == [i \in 1..n |-> 0]

\* the word of n bits holding the natural number v < 2^31
WordOfNat(v, n) == [i \in 1..n |-> IF i > 31 THEN 0 ELSE (v \div (2 ^ (i - 1))) % 2]

\* from_le_bytes
WordOfBytesLE(b) ==
    [i \in 1..(8 * Len(b)) |-> (b[((i - 1) \div 8) + 1] \div (2 ^ ((i - 1) % 8))) % 2]

\* the k-th byte of w, k = 0 the least significant
WordByte(w, k) ==
    w[8 * k + 1] + 2 * w[8 * k + 2] + 4 * w[8 * k + 3] + 8 * w[8 * k + 4]
        + 16 * w[8 * k + 5] + 32 * w[8 * k + 6] + 64 * w[8 * k + 7] + 128 * w[8 * k + 8]

\* to_le_bytes, to_be_bytes
WordToBytesLE(w) == [k \in 1..(Len(w) \div 8) |-> WordByte(w, k - 1)]

WordToBytesBE(w) == [k \in 1..(Len(w) \div 8) |-> WordByte(w, (Len(w) \div 8) - k)]

\* from_be_bytes
WordOfBytesBE(b) == WordOfBytesLE([k \in 1..Len(b) |-> b[Len(b) + 1 - k]])

\* w << k, w >> k on an unsigned word, w >> k on a signed one
WordShl(w, k) == [i \in 1..Len(w) |-> IF i > k THEN w[i - k] ELSE 0]

WordShr(w, k) == [i \in 1..Len(w) |-> IF i + k <= Len(w) THEN w[i + k] ELSE 0]

WordSar(w, k) == [i \in 1..Len(w) |-> IF i + k <= Len(w) THEN w[i + k] ELSE w[Len(w)]]

WordOr(a, b) == [i \in 1..Len(a) |-> IF a[i] = 1 \/ b[i] = 1 THEN 1 ELSE 0]

WordXor(a, b) == [i \in 1..Len(a) |-> IF a[i] # b[i] THEN 1 ELSE 0]

WordNot(a) == [i \in 1..Len(a) |-> 1 - a[i]]

\* the number of significant bits of w
WordBitLen(w) ==
    IF \E i \in 1..Len(w) : w[i] = 1
    THEN CHOOSE i \in 1..Len(w) : w[i] = 1 /\ \A j \in (i + 1)..Len(w) : w[j] = 0
    ELSE 0

WordLeadingZeros(w) == Len(w) - WordBitLen(w)

\* <$it>::min_value(): only the sign bit set
WordMinValue(n) == [i \in 1..n |-> IF i = n THEN 1 ELSE 0]

\* a >= b on unsigned words of one width
WordGE(a, b) ==
    \/ a = b
    \/ \E i \in 1..Len(a) : a[i] = 1 /\ b[i] = 0 /\ \A j \in (i + 1)..Len(a) : a[j] = b[j]

(***************************************************************************)
(* primitives.rs: bool, and the ordered serialization of floats.  A float  *)
(* is the word of its bits (value.to_bits()), 32 or 64 wide.               *)
(***************************************************************************)
\* serialize_bool
serialize_bool(v, order) == serialize_uint(IF v THEN 1 ELSE 0, 1, order)

\* the closure of deserialize_u8 on the byte read, then `v != 0`
deserialize_bool(buf, order) ==
    LET rv == from_be_bytes(buf)
    IN  OrdCond(order, NotInt(rv, 1), rv) # 0

\* $sfn with a logical shift of the sign bit
serialize_float_lsr(value, order) ==
    LET t  == value
        ov == WordXor(t, WordOr(WordShr(t, Len(t) - 1), WordMinValue(Len(t))))
    IN  WordToBytesBE(OrdCond(order, WordNot(ov), ov))

\* $sfn: let ov = t ^ ((t >> MSBOFFS) | <$ift>::min_value())
serialize_float(value, order) ==
    LET t  == value
        ov == WordXor(t, WordOr(WordSar(t, Len(t) - 1), WordMinValue(Len(t))))
    IN  WordToBytesBE(OrdCond(order, WordNot(ov), ov))

\* $dfn decoding with the mask of the encoder
deserialize_float_encmask(buf, order) ==
    LET rv  == WordOfBytesBE(buf)
        val == OrdCond(order, WordNot(rv), rv)
        t   == WordOr(WordSar(val, Len(val) - 1), WordMinValue(Len(val)))
    IN  WordXor(val, t)

\* $dfn on the size_of bytes read: the bits of the float returned
deserialize_float(buf, order) ==
    LET rv  == WordOfBytesBE(buf)
        val == OrdCond(order, WordNot(rv), rv)
        t   == WordOr(WordSar(WordXor(val, WordMinValue(Len(val))), Len(val) - 1),
                      WordMinValue(Len(val)))
    IN  WordXor(val, t)

(***************************************************************************)
(* bytes_esc.rs: the prefix-free byte-sequence escaper.                    *)
(***************************************************************************)
BSTR_ESCAPE_ASC == [start |-> 248, esc |-> 255, term |-> 1]

BSTR_ESCAPE_DESC ==
    [start |-> NotByte(BSTR_ESCAPE_ASC.start),
     esc   |-> NotByte(BSTR_ESCAPE_ASC.esc),
     term  |-> NotByte(BSTR_ESCAPE_ASC.term)]

\* one turn of the Descending loop of serialize_bytes: the chunk written for b
EscapeByteDesc_raw(b) ==
    IF BSTR_ESCAPE_ASC.start = b
    THEN <<BSTR_ESCAPE_DESC.start, BSTR_ESCAPE_DESC.esc>>
    ELSE <<b>>

EscapeByteDesc(b) ==
    IF BSTR_ESCAPE_ASC.start = b
    THEN <<BSTR_ESCAPE_DESC.start, BSTR_ESCAPE_DESC.esc>>
    ELSE <<NotByte(b)>>

\* the Ascending loop writing every byte as it is
EscapeByteAsc_raw(b) == <<b>>

\* one turn of the Ascending loop of serialize_bytes
EscapeByteAsc(b) ==
    IF BSTR_ESCAPE_ASC.start = b
    THEN <<BSTR_ESCAPE_ASC.start, BSTR_ESCAPE_ASC.esc>>
    ELSE <<b>>

\* serialize_bytes without the final write of the terminator
serialize_bytes_writes_noterm(value, order) ==
    OrdCond(order,
        [i \in 1..Len(value) |-> EscapeByteDesc(value[i])],
        [i \in 1..Len(value) |-> EscapeByteAsc(value[i])])

\* serialize_bytes: the chunks handed to writer.write, in call order
serialize_bytes_writes(value, order) ==
    OrdCond(order,
        [i \in 1..Len(value) |-> EscapeByteDesc(value[i])]
            \o <<<<BSTR_ESCAPE_DESC.start, BSTR_ESCAPE_DESC.term>>>>,
        [i \in 1..Len(value) |-> EscapeByteAsc(value[i])]
            \o <<<<BSTR_ESCAPE_ASC.start, BSTR_ESCAPE_ASC.term>>>>)

\* serialize_bytes into a Vec<u8>, whose write never fails
serialize_bytes(value, order) == Flatten(serialize_bytes_writes(value, order))

\* write_complement_bytes into a Vec<u8>
write_complement_bytes(input) == Flatten([i \in 1..Len(input) |-> <<NotByte(input[i])>>])

\* serialize_bytes_noesc into a Vec<u8>
serialize_bytes_noesc(v, order) == OrdCond(order, write_complement_bytes(v), v)

\* b.iter().position(|v| *v == esc): the 0-based offset of the first esc, or -1
\* a search that finds the last occurrence
Position_last(b, esc) ==
    IF \E i \in 1..Len(b) : b[i] = esc
    THEN (CHOOSE i \in 1..Len(b) : b[i] = esc /\ \A j \in (i + 1)..Len(b) : b[j] # esc) - 1
    ELSE -1

Position(b, esc) ==
    IF \E i \in 1..Len(b) : b[i] = esc
    THEN (CHOOSE i \in 1..Len(b) : b[i] = esc /\ \A j \in 1..(i - 1) : b[j] # esc) - 1
    ELSE -1

\* the closure with the START of an escape pair left out of the output
ReadEscapedClosure_dropstart(buf, c, order) ==
    LET E == OrdCond(order, BSTR_ESCAPE_DESC, BSTR_ESCAPE_ASC)
        put(x) == OrdCond(order, write_complement_bytes(x), x)
    IN  IF c = E.esc THEN [ret |-> "true", out |-> put(SubSeq(buf, 1, Len(buf) - 1))]
        ELSE IF c = E.term THEN [ret |-> "false", out |-> put(SubSeq(buf, 1, Len(buf) - 1))]
        ELSE [ret |-> "InvalidByteSequenceEscape", out |-> <<>>]

\* the closure of read_escaped_bytes_asc / read_escaped_bytes_desc: what it
\* writes to `out` for the slice buf (ending in START) and the next byte c,
\* and what it returns ("true": go on, "false": stop, or an error)
ReadEscapedClosure(buf, c, order) ==
    LET E == OrdCond(order, BSTR_ESCAPE_DESC, BSTR_ESCAPE_ASC)
        put(x) == OrdCond(order, write_complement_bytes(x), x)
    IN  IF c = E.esc THEN [ret |-> "true", out |-> put(buf)]
        ELSE IF c = E.term THEN [ret |-> "false", out |-> put(SubSeq(buf, 1, Len(buf) - 1))]
        ELSE [ret |-> "InvalidByteSequenceEscape", out |-> <<>>]

\* let len = b.len(): the amount apply_over_esc hands to rb.advance once its
\* loop has ended with the slice b left over
AdvanceAmount(whole, b) == Len(b)

\* apply_over_esc with the closure of read_escaped_bytes_*: b is the slice
\* still to scan, out what the closure has written so far.  The result: res,
\* the output, and the amount handed to rb.advance (0 when the closure's
\* error returns early through `?`, or when advance is false).
RECURSIVE ApplyOverEsc(_, _, _, _, _)
ApplyOverEsc(whole, b, order, advance, out) ==
    LET E   == OrdCond(order, BSTR_ESCAPE_DESC, BSTR_ESCAPE_ASC)
        pos == Position(b, E.start)
        adv(x) == IF advance THEN AdvanceAmount(whole, x) ELSE 0
    IN  IF pos < 0 \/ pos + 1 >= Len(b)
        THEN [res |-> "PrematureEndOfInput", out |-> out, adv |-> adv(b)]
        ELSE LET r    == ReadEscapedClosure(SubSeq(b, 1, pos + 1), b[pos + 2], order)
                 rest == SubSeq(b, pos + 3, Len(b))
             IN  IF r.ret = "true"
                 THEN ApplyOverEsc(whole, rest, order, advance, out \o r.out)
                 ELSE IF r.ret = "false"
                 THEN [res |-> "Ok", out |-> out \o r.out, adv |-> adv(rest)]
                 ELSE [res |-> r.ret, out |-> out, adv |-> 0]

\* deserialize_bytes_to_writer on the reader slice rb, writing to a Vec<u8>
deserialize_bytes_to_writer(rb, order) == ApplyOverEsc(rb, rb, order, TRUE, <<>>)

\* the closure of unescaped_length: what it adds to `len` for the slice buf
\* and the next byte c, and what it returns
UnescapedLengthClosure(buf, c, order) ==
    LET E == OrdCond(order, BSTR_ESCAPE_DESC, BSTR_ESCAPE_ASC)
    IN  IF c = E.esc THEN [ret |-> "true", add |-> Len(buf)]
        ELSE IF c = E.term THEN [ret |-> "false", add |-> Len(buf) - 1]
        ELSE [ret |-> "InvalidByteSequenceEscape", add |-> 0]

\* apply_over_esc with the closure of unescaped_length: b is the slice
\* still to scan, len what the closure has counted so far.  The result: res,
\* the count, and the amount handed to rb.advance (0 when advance is false
\* or the closure's error returns early through `?`)
RECURSIVE ApplyOverEscLen(_, _, _, _)
ApplyOverEscLen(b, order, advance, len) ==
    LET E   == OrdCond(order, BSTR_ESCAPE_DESC, BSTR_ESCAPE_ASC)
        pos == Position(b, E.start)
        adv(x) == IF advance THEN Len(x) ELSE 0
    IN  IF pos < 0 \/ pos + 1 >= Len(b)
        THEN [res |-> "PrematureEndOfInput", len |-> 0, adv |-> adv(b)]
        ELSE LET r    == UnescapedLengthClosure(SubSeq(b, 1, pos + 1), b[pos + 2], order)
                 rest == SubSeq(b, pos + 3, Len(b))
             IN  IF r.ret = "true"
                 THEN ApplyOverEscLen(rest, order, advance, len + r.add)
                 ELSE IF r.ret = "false"
                 THEN [res |-> "Ok", len |-> len + r.add, adv |-> adv(rest)]
                 ELSE [res |-> r.ret, len |-> 0, adv |-> 0]

\* an unescaped_length that lets apply_over_esc advance the reader
unescaped_length_advancing(rb, order) == ApplyOverEscLen(rb, order, TRUE, 0)

\* unescaped_length: apply_over_esc(rb, esc.start, false, ..).and(Ok(len))
unescaped_length(rb, order) == ApplyOverEscLen(rb, order, FALSE, 0)

\* bytes_length(reader, param)
bytes_length(rb, order) == unescaped_length(rb, order)

\* deserialize_bytes_to_vec: bytes_length for the capacity, then
\* deserialize_bytes_to_writer into the new Vec, on the same reader
deserialize_bytes_to_vec(rb, order) ==
    LET len == bytes_length(rb, order)
    IN  IF len.res # "Ok" THEN [res |-> len.res, out |-> <<>>, cap |-> 0, adv |-> len.adv]
        ELSE LET r == deserialize_bytes_to_writer(DeBytesReader_advance(rb, len.adv), order)
             IN  IF r.res # "Ok"
                 THEN [res |-> r.res, out |-> <<>>, cap |-> len.len, adv |-> len.adv + r.adv]
                 ELSE [res |-> "Ok", out |-> r.out, cap |-> len.len, adv |-> len.adv + r.adv]

(***************************************************************************)
(* The primitive encoders as a state machine: two encoder calls of one     *)
(* kind write into a Vec<u8>; a DeBytesReader is then constructed over the *)
(* escaped byte strings and decoded with the order they were written in    *)
(* (decoding under another order is documented as undefined).              *)
(***************************************************************************)
\* byte strings are at most this long
MaxLen == 2
\* integers are taken within this distance of 0, of the sign boundary and of
\* the largest value of their type
IntSpread == 1

IntTypes == {[w |-> 1, s |-> FALSE], [w |-> 1, s |-> TRUE],
             [w |-> 2, s |-> FALSE], [w |-> 2, s |-> TRUE]}

IntSample(t) ==
    LET U   == 2 ^ (8 * t.w)
        H   == U \div 2
        raw == (0..IntSpread) \cup ((H - IntSpread)..(H + IntSpread))
                  \cup ((U - 1 - IntSpread)..(U - 1))
                  \cup (IF t.w = 2 THEN {255, 256, 258} ELSE {})
    IN  IF t.s THEN {r - H : r \in raw} ELSE raw

\* TERM, START' (0x07), START, ESC
EscBytes == {1, 7, 248, 255}

ByteStrings == SeqsUpTo(EscBytes, MaxLen)

NoType == [w |-> 0, s |-> FALSE]

\* the harness encodes values of one kind (and one integer type) in a run
SameKind(kind, t) ==
    \A i \in 1..Len(written) : written[i].kind = kind /\ written[i].t = t

\* the float types: f32 and f64, by their width in bytes
FloatTypes == {[w |-> 4, s |-> TRUE], [w |-> 8, s |-> TRUE]}

\* the big-endian bytes of a float's bits: the first two bytes, the bytes
\* between, the last byte
FloatPattern(w, b1, b2, fill, last) == <<b1, b2>> \o [i \in 1..(w - 3) |-> fill] \o <<last>>

\* 0.0, the least subnormal, MIN_POSITIVE, 1.0, MAX, INFINITY, NAN
FloatMagnitudes(w) ==
    LET e == IF w = 4 THEN 128 ELSE 240   \* the low exponent bit in byte 2
    IN  {FloatPattern(w, 0, 0, 0, 0), FloatPattern(w, 0, 0, 0, 1),
         FloatPattern(w, 0, IF w = 4 THEN 128 ELSE 16, 0, 0),
         FloatPattern(w, 63, e, 0, 0),
         FloatPattern(w, 127, e - 1, 255, 255),
         FloatPattern(w, 127, e, 0, 0),
         FloatPattern(w, 127, e + (256 - e) \div 2, 0, 0)}

\* each magnitude with either sign
FloatSample(w) ==
    FloatMagnitudes(w) \cup {<<m[1] + 128>> \o Tail(m) : m \in FloatMagnitudes(w)}

InitEnc ==
    /\ BufIdle
    /\ EncIdle
    /\ SerIdle

SerializeInt ==
    /\ ~rdOpen
    /\ Len(written) < 2
    /\ \E t \in IntTypes :
         /\ SameKind("int", t)
         /\ \E v \in IntSample(t), o \in Orders :
              LET enc == serialize_int(v, t, o)
              IN  /\ vecw' = Vec_write(vecw, enc)
                  /\ written' = Append(written,
                        [kind |-> "int", t |-> t, n |-> v, x |-> <<>>, ord |-> o, enc |-> enc])
    /\ UNCHANGED <<rdOpen, rd, outs>>
    /\ UNCHANGED bufVars
    /\ UNCHANGED serVars

\* primitives::serialize_f32 / serialize_f64(&mut vecw, f, order); the record
\* keeps the float as the big-endian bytes of its bits
SerializeFloat ==
    /\ ~rdOpen
    /\ Len(written) < 2
    /\ \E t \in FloatTypes :
         /\ SameKind("float", t)
         /\ \E f \in FloatSample(t.w), o \in Orders :
              LET enc == serialize_float(WordOfBytesBE(f), o)
              IN  /\ vecw' = Vec_write(vecw, enc)
                  /\ written' = Append(written,
                        [kind |-> "float", t |-> t, n |-> 0, x |-> f, ord |-> o, enc |-> enc])
    /\ UNCHANGED <<rdOpen, rd, outs>>
    /\ UNCHANGED bufVars
    /\ UNCHANGED serVars

SerializeBytes ==
    /\ ~rdOpen
    /\ Len(written) < 2
    /\ SameKind("bytes", NoType)
    /\ \E x \in ByteStrings, o \in Orders :
         LET enc == serialize_bytes(x, o)
         IN  /\ vecw' = Vec_write(vecw, enc)
             /\ written' = Append(written,
                   [kind |-> "bytes", t |-> NoType, n |-> 0, x |-> x, ord |-> o, enc |-> enc])
    /\ UNCHANGED <<rdOpen, rd, outs>>
    /\ UNCHANGED bufVars
    /\ UNCHANGED serVars

SerializeBytesNoesc ==
    /\ ~rdOpen
    /\ Len(written) < 2
    /\ SameKind("noesc", NoType)
    /\ \E x \in ByteStrings, o \in Orders :
         LET enc == serialize_bytes_noesc(x, o)
         IN  /\ vecw' = Vec_write(vecw, enc)
             /\ written' = Append(written,
                   [kind |-> "noesc", t |-> NoType, n |-> 0, x |-> x, ord |-> o, enc |-> enc])
    /\ UNCHANGED <<rdOpen, rd, outs>>
    /\ UNCHANGED bufVars
    /\ UNCHANGED serVars

\* DeBytesReader::new(&vecw), over escaped byte strings of one order
NewReader ==
    /\ ~rdOpen
    /\ written # <<>>
    /\ \A i \in 1..Len(written) :
          written[i].kind = "bytes" /\ written[i].ord = written[1].ord
    /\ rdOpen' = TRUE
    /\ rd' = DeBytesReader_new(vecw)
    /\ UNCHANGED <<vecw, written, outs>>
    /\ UNCHANGED bufVars
    /\ UNCHANGED serVars

\* bytes_esc::deserialize_bytes_to_writer(&mut reader, &mut out, order)
DeserializeBytesToWriter ==
    /\ rdOpen
    /\ Len(outs) < 2
    /\ LET o == written[1].ord
           r == deserialize_bytes_to_writer(rd, o)
       IN  /\ rd' = DeBytesReader_advance(rd, r.adv)
           /\ outs' = Append(outs, [res |-> r.res, out |-> r.out])
    /\ UNCHANGED <<vecw, written, rdOpen>>
    /\ UNCHANGED bufVars
    /\ UNCHANGED serVars

NextEnc ==
    \/ SerializeInt
    \/ SerializeFloat
    \/ SerializeBytes
    \/ SerializeBytesNoesc
    \/ NewReader
    \/ DeserializeBytesToWriter

SpecEnc == InitEnc /\ [][NextEnc]_vars

(***************************************************************************)
(* varint.rs: the varint codec.  bits is 64 (u64) or 32 (u32).             *)
(***************************************************************************)
RECURSIVE BitLen(_)
BitLen(v) == IF v = 0 THEN 0 ELSE 1 + BitLen(v \div 2)

leading_zeros(v, bits) == bits - BitLen(v)

RECURSIVE trailing_zeros(_)
trailing_zeros(b) ==
    IF b = 0 THEN 8 ELSE IF b % 2 = 1 THEN 0 ELSE 1 + trailing_zeros(b \div 2)

RECURSIVE to_le_bytes(_, _)
to_le_bytes(u, n) ==
    IF n = 0 THEN <<>> ELSE <<u % 256>> \o to_le_bytes(u \div 256, n - 1)

RECURSIVE from_le_bytes(_)
from_le_bytes(b) == IF b = <<>> THEN 0 ELSE Head(b) + 256 * from_le_bytes(Tail(b))

LENGTHS64 == <<9,9,9,9,9,9,9,9,8,8,8,8,8,8,8,7,7,7,7,7,7,7,6,6,6,6,6,6,6,5,5,5,5,5,5,5,4,4,4,4,4,4,4,3,3,3,3,3,3,3,2,2,2,2,2,2,2,1,1,1,1,1,1,1,1>>

\* the u32 table with the 4-byte / 5-byte boundary one bit late
LENGTHS32_late == <<5,5,5,4,4,4,4,4,4,4,4,3,3,3,3,3,3,3,2,2,2,2,2,2,2,1,1,1,1,1,1,1,1>>

LENGTHS32 == <<5,5,5,5,4,4,4,4,4,4,4,3,3,3,3,3,3,3,2,2,2,2,2,2,2,1,1,1,1,1,1,1,1>>

varu_encoded_len(v, bits) ==
    IF bits = 64 THEN LENGTHS64[leading_zeros(v, 64) + 1]
    ELSE LENGTHS32[leading_zeros(v, 32) + 1]

varu_decoded_len(first_byte) == trailing_zeros(first_byte) + 1

\* varu_to_slice: the scratch array bytes and the length returned
varu_to_slice(v, bits) ==
    LET length == varu_encoded_len(v, bits)
        encoded == (2 * v + 1) * (2 ^ (length - 1))
    IN  [length |-> length,
         bytes  |-> IF bits = 64
                    THEN IF length = 9 THEN <<0>> \o to_le_bytes(v, 8)
                         ELSE to_le_bytes(encoded, 8) \o <<0>>
                    ELSE IF length = 5 THEN <<240>> \o to_le_bytes(v, 4)
                         ELSE to_le_bytes(encoded, 4) \o <<0>>]

\* varu_to_writer: the two slices handed to writer.write, in call order
varu_to_writer(v, bits) ==
    LET r == varu_to_slice(v, bits)
    IN  <<<<r.bytes[1]>>, SubSeq(r.bytes, 2, r.length)>>

\* varu64_decode / varu32_decode; dbg: the build has debug_assertions
varu_decode(varu_encoded_length, first_byte, bytes, bits, dbg) ==
    IF Len(bytes) + 1 < varu_encoded_length
    THEN [res |-> "PrematureEndOfInput", v |-> 0]
    ELSE LET special == IF bits = 64 THEN 9 ELSE 5
             result ==
                IF varu_encoded_length = special
                THEN from_le_bytes(SubSeq(bytes, 1, special - 1))
                ELSE from_le_bytes(<<first_byte>> \o SubSeq(bytes, 1, varu_encoded_length - 1))
                        \div (2 ^ varu_encoded_length)
         IN  IF dbg /\ ~(varu_encoded_length = 1
                          \/ result >= 2 ^ (7 * (varu_encoded_length - 1)))
             THEN [res |-> "InvalidVarintEncoding", v |-> 0]
             ELSE [res |-> "Ok", v |-> result]

\* ReadBytes::read on a DeBytesReader: peek, then advance
ReadBytes_read(b, n) ==
    IF n <= Len(b)
    THEN [res |-> "Ok", bytes |-> SubSeq(b, 1, n), rd |-> DeBytesReader_advance(b, n)]
    ELSE [res |-> "PrematureEndOfInput", bytes |-> <<>>, rd |-> b]

\* ReadFromTail reading at the head of the reader
ReadFromTail_read_head(b, n) ==
    IF n <= Len(b)
    THEN [res |-> "Ok", bytes |-> SubSeq(b, 1, n), rd |-> DeBytesReader_advance(b, n)]
    ELSE [res |-> "PrematureEndOfInput", bytes |-> <<>>, rd |-> b]

\* ReadBytes::read on ReadFromTail(&mut DeBytesReader): peek_tail, then advance_tail
ReadFromTail_read(b, n) ==
    IF n <= Len(b)
    THEN [res |-> "Ok", bytes |-> SubSeq(b, Len(b) - n + 1, Len(b)),
          rd |-> DeBytesReader_advance_tail(b, n)]
    ELSE [res |-> "PrematureEndOfInput", bytes |-> <<>>, rd |-> b]

\* varu_from_reader; tail: the reader is wrapped in ReadFromTail
varu_from_reader(b, tail, bits, dbg) ==
    LET rd1(x, n) == IF tail THEN ReadFromTail_read(x, n) ELSE ReadBytes_read(x, n)
        r1 == rd1(b, 1)
    IN  IF r1.res # "Ok" THEN [res |-> r1.res, v |-> 0, rd |-> r1.rd]
        ELSE LET first_byte == r1.bytes[1]
                 len == varu_decoded_len(first_byte)
             IN  IF bits = 32 /\ len > 5
                 THEN [res |-> "InvalidVarintEncoding", v |-> 0, rd |-> r1.rd]
                 ELSE LET r2 == rd1(r1.rd, len - 1)
                      IN  IF r2.res # "Ok" THEN [res |-> r2.res, v |-> 0, rd |-> r1.rd]
                          ELSE LET d == varu_decode(len, first_byte, r2.bytes, bits, dbg)
                               IN  [res |-> d.res, v |-> d.v,
                                    rd |-> IF d.res = "Ok" THEN r2.rd ELSE r1.rd]

(***************************************************************************)
(* params.rs: the presets.  SeqLenTail: SeqLenEncoder is                   *)
(* VarIntTailLenEncoder (else VarIntLenEncoder); the DiscriminantEncoder   *)
(* of both presets is VarIntDiscrEncoder.                                  *)
(***************************************************************************)
AscendingOrder == [ORDER |-> "Ascending", SeqLenTail |-> TRUE]

PortableBinary == [ORDER |-> "Ascending", SeqLenTail |-> FALSE]

Params(p) == IF p = "AscendingOrder" THEN AscendingOrder ELSE PortableBinary

Presets == {"AscendingOrder", "PortableBinary"}

\* one call of writer.write (tail = FALSE) or writer.write_tail (tail = TRUE);
\* len is the value when the call starts the varint of a sequence length, else -1
WriteOp(tail, bytes, len) == [tail |-> tail, bytes |-> bytes, len |-> len]

\* the length varint written through the writer itself, never WriteToTail
SeqLenEncoder_write_head(v, P) ==
    LET w == varu_to_writer(v, 64)
    IN  <<WriteOp(FALSE, w[1], v), WriteOp(FALSE, w[2], -1)>>

\* VarIntTailLenEncoder::write / VarIntLenEncoder::write
SeqLenEncoder_write(v, P) ==
    LET w == varu_to_writer(v, 64)
    IN  <<WriteOp(P.SeqLenTail, w[1], v), WriteOp(P.SeqLenTail, w[2], -1)>>

SeqLenEncoder_read(b, P, dbg) == varu_from_reader(b, P.SeqLenTail, 64, dbg)

SeqLenEncoder_calc_size(v) == varu_encoded_len(v, 64)

\* the discriminant varint written through WriteToTail
DiscriminantEncoder_write_tail(v) ==
    LET w == varu_to_writer(v, 32)
    IN  <<WriteOp(TRUE, w[1], -1), WriteOp(TRUE, w[2], -1)>>

\* VarIntDiscrEncoder
DiscriminantEncoder_write(v) ==
    LET w == varu_to_writer(v, 32)
    IN  <<WriteOp(FALSE, w[1], -1), WriteOp(FALSE, w[2], -1)>>

DiscriminantEncoder_read(b, dbg) == varu_from_reader(b, FALSE, 32, dbg)

DiscriminantEncoder_calc_size(v) == varu_encoded_len(v, 32)

(***************************************************************************)
(* Values handed to serde and their types.  A value or a type is a record  *)
(* [k, w, s, n, b, f]: k the kind, w and s the width and signedness of an  *)
(* integer, n the integer (bool: 0 or 1) or the variant index, b the bytes *)
(* of a string or byte buffer, f the children (fields, elements, map       *)
(* entries as key, value, key, value ..., the payload of Some or of a      *)
(* variant; for a type: the field types, the element type, the key and     *)
(* value types, the variants of an enum).                                  *)
(***************************************************************************)
Val(k, w, s, n, b, f) == [k |-> k, w |-> w, s |-> s, n |-> n, b |-> b, f |-> f]

TInt(w, s) == Val("int", w, s, 0, <<>>, <<>>)
TBool == Val("bool", 1, FALSE, 0, <<>>, <<>>)
TBytes == Val("bytes", 0, FALSE, 0, <<>>, <<>>)
TUnit == Val("unit", 0, FALSE, 0, <<>>, <<>>)
TOption(T) == Val("option", 0, FALSE, 0, <<>>, <<T>>)
TTuple(Ts) == Val("tuple", 0, FALSE, 0, <<>>, Ts)
TSeq(T) == Val("seq", 0, FALSE, 0, <<>>, <<T>>)
TMap(K, V) == Val("map", 0, FALSE, 0, <<>>, <<K, V>>)
TVariant(idx, Ts) == Val("variant", 0, FALSE, idx, <<>>, Ts)
TEnum(variants) == Val("enum", 0, FALSE, 0, <<>>, variants)

IntVal(w, s, n) == Val("int", w, s, n, <<>>, <<>>)
BoolVal(n) == Val("bool", 1, FALSE, n, <<>>, <<>>)
BytesVal(b) == Val("bytes", 0, FALSE, 0, b, <<>>)
NoneVal == Val("none", 0, FALSE, 0, <<>>, <<>>)
SomeVal(x) == Val("some", 0, FALSE, 0, <<>>, <<x>>)
TupleVal(fs) == Val("tuple", 0, FALSE, 0, <<>>, fs)
SeqVal(es) == Val("seq", 0, FALSE, 0, <<>>, es)
MapVal(kvs) == Val("map", 0, FALSE, 0, <<>>, kvs)
VariantVal(idx, fs) == Val("variant", 0, FALSE, idx, <<>>, fs)
UnitVal == Val("unit", 0, FALSE, 0, <<>>, <<>>)

\* sequences and maps have at most this many elements
MaxSeq == 2
\* the length of the one long byte buffer (its length varint takes two bytes)
LongLen == 129

\* variant indices whose varint takes 1, 1, 2 and 5 bytes
TestEnum ==
    TEnum(<<TVariant(0, <<>>),
            TVariant(1, <<TInt(1, FALSE)>>),
            TVariant(128, <<TInt(1, FALSE), TBytes>>),
            TVariant(268435456, <<TBool>>)>>)

Schemas ==
    {TInt(1, FALSE), TInt(2, TRUE), TBool, TBytes, TUnit,
     TOption(TInt(1, FALSE)), TOption(TBytes),
     TTuple(<<TInt(1, FALSE), TInt(2, TRUE)>>),
     TTuple(<<TBytes, TInt(1, FALSE)>>),
     TTuple(<<TTuple(<<TBool, TOption(TInt(1, FALSE))>>), TInt(2, TRUE)>>),
     TSeq(TInt(1, FALSE)), TSeq(TBytes),
     TMap(TInt(1, FALSE), TBytes),
     TestEnum,
     TTuple(<<TBytes, TestEnum, TSeq(TInt(1, FALSE))>>)}

StrBytes == {97, 98}

\* the integers tried at nesting depth d: fewer, the deeper
IntsAt(w, s, d) ==
    LET U   == 2 ^ (8 * w)
        H   == U \div 2
        raw == IF d = 0 THEN IntSample([w |-> w, s |-> s])
               ELSE IF d = 1 THEN {0, H - 1, H, U - 1}
               ELSE {0, U - 1}
    IN  IF d = 0 THEN raw ELSE IF s THEN {r - H : r \in raw} ELSE raw

BytesAt(d) ==
    IF d = 0 THEN SeqsUpTo(StrBytes, MaxLen) \cup {Zeros(LongLen)}
    ELSE IF d = 1 THEN {<<>>, <<98>>, <<98, 98>>}
    ELSE {<<>>, <<98>>}

DistinctKeys(es) == \A i, j \in 1..Len(es) : i # j => es[i][1] # es[j][1]

RECURSIVE ValuesOf(_, _)
RECURSIVE FieldValues(_, _)
ValuesOf(T, d) ==
    CASE T.k = "int"    -> {IntVal(T.w, T.s, n) : n \in IntsAt(T.w, T.s, d)}
      [] T.k = "bool"   -> {BoolVal(0), BoolVal(1)}
      [] T.k = "bytes"  -> {BytesVal(b) : b \in BytesAt(d)}
      [] T.k = "unit"   -> {UnitVal}
      [] T.k = "option" -> {NoneVal} \cup {SomeVal(x) : x \in ValuesOf(T.f[1], d + 1)}
      [] T.k = "tuple"  -> {TupleVal(fs) : fs \in FieldValues(T.f, d + 1)}
      [] T.k = "seq"    ->
            {SeqVal(es) : es \in SeqsUpTo(ValuesOf(T.f[1], d + 1), MaxSeq)}
              \cup (IF d = 0 /\ T.f[1].k = "bytes"
                    THEN {SeqVal(<<BytesVal(Zeros(LongLen)), BytesVal(<<98>>)>>)}
                    ELSE {})
      [] T.k = "map"    ->
            {MapVal(Flatten(es)) :
                es \in {x \in SeqsUpTo(ValuesOf(T.f[1], d + 2) \X ValuesOf(T.f[2], d + 2), MaxSeq) :
                            DistinctKeys(x)}}
      [] T.k = "enum"   ->
            UNION {{VariantVal(T.f[i].n, fs) : fs \in FieldValues(T.f[i].f, d + 1)} :
                        i \in 1..Len(T.f)}

FieldValues(Ts, d) ==
    IF Ts = <<>> THEN {<<>>}
    ELSE {<<h>> \o t : h \in ValuesOf(Head(Ts), d), t \in FieldValues(Tail(Ts), d)}

(***************************************************************************)
(* ord_ser.rs: Serializer.  The run of value.serialize(&mut serializer)    *)
(* is the sequence of write calls it makes on the writer, cut short by the *)
(* first call that fails.                                                  *)
(***************************************************************************)
\* v.to_writer(&mut self.writer, self.params) for the integer types: the
\* integer writer of the primitives module, under the preset's ORDER
to_writer(v, P) == serialize_int(v.n, [w |-> v.w, s |-> v.s], P.ORDER)

\* serialize_u8
serialize_u8(n, P) == serialize_uint(n, 1, P.ORDER)

RECURSIVE Serializer_serialize(_, _)
\* SerializeCompound / SerializeCompoundSeq: serialize_element,
\* serialize_field, serialize_key, serialize_value for each child in turn
RECURSIVE SerializeCompound(_, _)
SerializeCompound(fs, P) ==
    IF fs = <<>> THEN <<>>
    ELSE Serializer_serialize(Head(fs), P) \o SerializeCompound(Tail(fs), P)

Serializer_serialize(v, P) ==
    CASE v.k = "int"     -> <<WriteOp(FALSE, to_writer(v, P), -1)>>
      [] v.k = "bool"    -> <<WriteOp(FALSE, serialize_u8(IF v.n # 0 THEN 1 ELSE 0, P), -1)>>
      [] v.k = "bytes"   -> SeqLenEncoder_write(Len(v.b), P) \o <<WriteOp(FALSE, v.b, -1)>>
      [] v.k = "none"    -> <<WriteOp(FALSE, serialize_u8(0, P), -1)>>
      [] v.k = "some"    -> <<WriteOp(FALSE, serialize_u8(1, P), -1)>>
                                \o Serializer_serialize(v.f[1], P)
      [] v.k = "unit"    -> <<>>
      [] v.k = "variant" -> DiscriminantEncoder_write(v.n) \o SerializeCompound(v.f, P)
      [] v.k = "tuple"   -> SerializeCompound(v.f, P)
      [] v.k = "seq"     -> SeqLenEncoder_write(Len(v.f), P) \o SerializeCompound(v.f, P)
      [] v.k = "map"     -> SeqLenEncoder_write(Len(v.f) \div 2, P) \o SerializeCompound(v.f, P)

\* the write calls applied to a DeBytesWriter; `?` returns at the first error
RECURSIVE RunWrites(_, _)
RunWrites(w, ops) ==
    IF ops = <<>> THEN [w |-> w, res |-> "Ok"]
    ELSE LET r == IF Head(ops).tail
                  THEN DeBytesWriter_write_tail(w, Head(ops).bytes)
                  ELSE DeBytesWriter_write(w, Head(ops).bytes)
         IN  IF r.res # "Ok" THEN r ELSE RunWrites(r.w, Tail(ops))

(***************************************************************************)
(* hint_ser.rs: SizeCalc.                                                  *)
(***************************************************************************)
\* serialize_bytes without add_seq_len
SizeCalc_serialize_bytes_nolen(b) == Len(b)

\* serialize_bytes: add_seq_len(v.len()); size += v.len()
SizeCalc_serialize_bytes(b) == SeqLenEncoder_calc_size(Len(b)) + Len(b)

RECURSIVE SizeCalc_serialize(_)
RECURSIVE SizeCalc_compound(_)
SizeCalc_serialize(v) ==
    CASE v.k = "int"     -> v.w
      [] v.k = "bool"    -> 1
      [] v.k = "bytes"   -> SizeCalc_serialize_bytes(v.b)
      [] v.k = "none"    -> 1
      [] v.k = "some"    -> 1 + SizeCalc_serialize(v.f[1])
      [] v.k = "unit"    -> 0
      [] v.k = "variant" -> DiscriminantEncoder_calc_size(v.n) + SizeCalc_compound(v.f)
      [] v.k = "tuple"   -> SizeCalc_compound(v.f)
      [] v.k = "seq"     -> SeqLenEncoder_calc_size(Len(v.f)) + SizeCalc_compound(v.f)
      [] v.k = "map"     -> SeqLenEncoder_calc_size(Len(v.f) \div 2) + SizeCalc_compound(v.f)

SizeCalc_compound(fs) ==
    IF fs = <<>> THEN 0 ELSE SizeCalc_serialize(Head(fs)) + SizeCalc_compound(Tail(fs))

(***************************************************************************)
(* ord_de.rs: Deserializer.  A step returns res, the value v, the reader   *)
(* slice rd left over, and lens: the values SeqLenEncoder::read has        *)
(* returned so far, in call order.                                         *)
(***************************************************************************)
DeOk(v, b, lens) == [res |-> "Ok", v |-> v, rd |-> b, lens |-> lens]

DeErr(e, b, lens) == [res |-> e, v |-> NoValue, rd |-> b, lens |-> lens]

\* $dufn: from_be_bytes, complemented under Descending
deserialize_uint(b, w, order) ==
    LET r == ReadBytes_read(b, w)
    IN  IF r.res # "Ok" THEN [res |-> r.res, v |-> 0, rd |-> r.rd]
        ELSE LET rv == from_be_bytes(r.bytes)
             IN  [res |-> "Ok", v |-> OrdCond(order, NotInt(rv, w), rv), rd |-> r.rd]

\* $difn: (u as $it) ^ <$it>::min_value()
deserialize_sint(b, w, order) ==
    LET r == deserialize_uint(b, w, order)
    IN  IF r.res # "Ok" THEN r
        ELSE [r EXCEPT !.v = AsSigned(BitXor(r.v, MinValueBits(w)), w)]

deserialize_int(b, t, order) ==
    IF t.s THEN deserialize_sint(b, t.w, order) ELSE deserialize_uint(b, t.w, order)

\* the variant of enum type T with index idx, as a set (empty: unknown index)
VariantsAt(T, idx) == {i \in 1..Len(T.f) : T.f[i].n = idx}

RECURSIVE Deserializer_deserialize(_, _, _, _, _)
RECURSIVE SeqAccess(_, _, _, _, _, _)
RECURSIVE Repeat(_, _)
Repeat(Ts, n) == IF n = 0 THEN <<>> ELSE Ts \o Repeat(Ts, n - 1)

Deserializer_deserialize(T, b, lens, P, dbg) ==
    CASE T.k = "int" ->
            LET r == deserialize_int(b, [w |-> T.w, s |-> T.s], P.ORDER)
            IN  IF r.res # "Ok" THEN DeErr(r.res, r.rd, lens)
                ELSE DeOk(IntVal(T.w, T.s, r.v), r.rd, lens)
      [] T.k = "bool" ->
            LET r == deserialize_uint(b, 1, P.ORDER)
            IN  IF r.res # "Ok" THEN DeErr(r.res, r.rd, lens)
                ELSE DeOk(BoolVal(IF r.v # 0 THEN 1 ELSE 0), r.rd, lens)
      [] T.k = "bytes" ->
            \* visit_bytebuf
            LET l == SeqLenEncoder_read(b, P, dbg)
            IN  IF l.res # "Ok" THEN DeErr(l.res, l.rd, lens)
                ELSE LET r == ReadBytes_read(l.rd, l.v)
                     IN  IF r.res # "Ok" THEN DeErr(r.res, r.rd, Append(lens, l.v))
                         ELSE DeOk(BytesVal(r.bytes), r.rd, Append(lens, l.v))
      [] T.k = "option" ->
            LET r == deserialize_uint(b, 1, P.ORDER)
            IN  IF r.res # "Ok" THEN DeErr(r.res, r.rd, lens)
                ELSE IF r.v = 0 THEN DeOk(NoneVal, r.rd, lens)
                ELSE IF r.v = 1
                THEN LET x == Deserializer_deserialize(T.f[1], r.rd, lens, P, dbg)
                     IN  IF x.res # "Ok" THEN x ELSE DeOk(SomeVal(x.v), x.rd, x.lens)
                ELSE DeErr("InvalidTagEncoding", r.rd, lens)
      [] T.k = "unit" -> DeOk(UnitVal, b, lens)
      [] T.k = "tuple" ->
            LET r == SeqAccess(T.f, b, lens, P, dbg, <<>>)
            IN  IF r.res # "Ok" THEN DeErr(r.res, r.rd, r.lens)
                ELSE DeOk(TupleVal(r.v), r.rd, r.lens)
      [] T.k = "seq" ->
            LET l == SeqLenEncoder_read(b, P, dbg)
            IN  IF l.res # "Ok" THEN DeErr(l.res, l.rd, lens)
                ELSE LET r == SeqAccess(Repeat(T.f, l.v), l.rd, Append(lens, l.v), P, dbg, <<>>)
                     IN  IF r.res # "Ok" THEN DeErr(r.res, r.rd, r.lens)
                         ELSE DeOk(SeqVal(r.v), r.rd, r.lens)
      [] T.k = "map" ->
            LET l == SeqLenEncoder_read(b, P, dbg)
            IN  IF l.res # "Ok" THEN DeErr(l.res, l.rd, lens)
                ELSE LET r == SeqAccess(Repeat(T.f, l.v), l.rd, Append(lens, l.v), P, dbg, <<>>)
                     IN  IF r.res # "Ok" THEN DeErr(r.res, r.rd, r.lens)
                         ELSE DeOk(MapVal(r.v), r.rd, r.lens)
      [] T.k = "enum" ->
            \* variant_seed, then unit_variant / newtype_variant_seed /
            \* tuple_variant / struct_variant
            LET d == DiscriminantEncoder_read(b, dbg)
            IN  IF d.res # "Ok" THEN DeErr(d.res, d.rd, lens)
                ELSE IF VariantsAt(T, d.v) = {} THEN DeErr("Serde", d.rd, lens)
                ELSE LET i == CHOOSE i \in VariantsAt(T, d.v) : TRUE
                         r == SeqAccess(T.f[i].f, d.rd, lens, P, dbg, <<>>)
                     IN  IF r.res # "Ok" THEN DeErr(r.res, r.rd, r.lens)
                         ELSE DeOk(VariantVal(d.v, r.v), r.rd, r.lens)

\* SeqAccess / MapAccess: one seed.deserialize per expected child, the first
\* error returned through `?`
SeqAccess(Ts, b, lens, P, dbg, acc) ==
    IF Ts = <<>> THEN [res |-> "Ok", v |-> acc, rd |-> b, lens |-> lens]
    ELSE LET r == Deserializer_deserialize(Head(Ts), b, lens, P, dbg)
         IN  IF r.res # "Ok" THEN [res |-> r.res, v |-> acc, rd |-> r.rd, lens |-> r.lens]
             ELSE SeqAccess(Tail(Ts), r.rd, r.lens, P, dbg, Append(acc, r.v))

(***************************************************************************)
(* The structured serializer as a state machine: a value of one of the     *)
(* types is sized (SizeCalc), serialized into a DeBytesWriter over a slice *)
(* of the calculated size, one byte less or one byte more, finalized, and  *)
(* deserialized from a DeBytesReader over the finalized prefix.            *)
(***************************************************************************)
InitSer ==
    /\ BufIdle
    /\ EncIdle
    /\ \E T \in Schemas, p \in Presets :
         \E v \in ValuesOf(T, 0) : sval = [v |-> v, t |-> T, p |-> p]
    /\ pc = "idle"
    /\ swr = DeBytesWriter_new(<<>>)
    /\ ssize = 0
    /\ sres = [res |-> "Ok", ret |-> 0]
    /\ srd = <<>>
    /\ dval = [res |-> "Ok", v |-> NoValue, lens |-> <<>>]

\* value.serialize(&mut size_calc); size_calc.size()
CalcSize ==
    /\ pc = "idle"
    /\ ssize' = SizeCalc_serialize(sval.v)
    /\ pc' = "sized"
    /\ UNCHANGED <<sval, swr, sres, srd, dval>>
    /\ UNCHANGED bufVars
    /\ UNCHANGED encVars

\* DeBytesWriter::new(&mut buf)
NewWriter ==
    /\ pc = "sized"
    /\ \E n \in {ssize - 1, ssize, ssize + 1} \cap Nat :
         swr' = DeBytesWriter_new(Zeros(n))
    /\ pc' = "writer"
    /\ UNCHANGED <<sval, ssize, sres, srd, dval>>
    /\ UNCHANGED bufVars
    /\ UNCHANGED encVars

\* value.serialize(&mut Serializer::new(&mut writer, params))
Serialize ==
    /\ pc = "writer"
    /\ LET r == RunWrites(swr, Serializer_serialize(sval.v, Params(sval.p)))
       IN  /\ swr' = r.w
           /\ sres' = [res |-> r.res, ret |-> 0]
    /\ pc' = "serialized"
    /\ UNCHANGED <<sval, ssize, srd, dval>>
    /\ UNCHANGED bufVars
    /\ UNCHANGED encVars

\* writer.finalize(), after a successful serialization
FinalizeOutput ==
    /\ pc = "serialized"
    /\ sres.res = "Ok"
    /\ LET r == DeBytesWriter_finalize(swr)
       IN  /\ swr' = r.w
           /\ sres' = [res |-> "Ok", ret |-> r.ret]
    /\ pc' = "finalized"
    /\ UNCHANGED <<sval, ssize, srd, dval>>
    /\ UNCHANGED bufVars
    /\ UNCHANGED encVars

\* DeBytesReader::new(&buf[..len])
NewDeReader ==
    /\ pc = "finalized"
    /\ srd' = DeBytesReader_new(SubSeq(swr.buf, 1, sres.ret))
    /\ pc' = "reader"
    /\ UNCHANGED <<sval, swr, ssize, sres, dval>>
    /\ UNCHANGED bufVars
    /\ UNCHANGED encVars

\* T::deserialize(&mut Deserializer::new(&mut reader, params)); the build may
\* or may not have debug_assertions
Deserialize ==
    /\ pc = "reader"
    /\ \E dbg \in BOOLEAN :
         LET r == Deserializer_deserialize(sval.t, srd, <<>>, Params(sval.p), dbg)
         IN  /\ srd' = r.rd
             /\ dval' = [res |-> r.res, v |-> r.v, lens |-> r.lens]
    /\ pc' = "done"
    /\ UNCHANGED <<sval, swr, ssize, sres>>
    /\ UNCHANGED bufVars
    /\ UNCHANGED encVars

NextSer ==
    \/ CalcSize
    \/ NewWriter
    \/ Serialize
    \/ FinalizeOutput
    \/ NewDeReader
    \/ Deserialize

SpecSer == InitSer /\ [][NextSer]_vars

(***************************************************************************)
(* The order-parameterized entry points: ser_to_vec_ordered and            *)
(* de_from_bytes_ordered, with primitives::invert_buffer.  The structured  *)
(* serializer always runs under AscendingOrder; Descending output is the   *)
(* finalized buffer inverted in place, and Descending input is inverted in *)
(* place before it is deserialized.                                        *)
(***************************************************************************)
\* invert_buffer: bitwise-complements every byte of the slice
invert_buffer(buf) == [i \in 1..Len(buf) |-> NotByte(buf[i])]

\* ser_to_vec_ordered(value, order): a vector of the calculated size is
\* serialized into, finalized, truncated to the length finalize returned
\* and, for Descending, inverted
ser_to_vec_ordered(value, order) ==
    LET size == SizeCalc_serialize(value)
        r    == RunWrites(DeBytesWriter_new(Zeros(size)),
                          Serializer_serialize(value, AscendingOrder))
        z    == DeBytesWriter_finalize(r.w)
        out  == SubSeq(z.w.buf, 1, z.ret)
    IN  IF r.res # "Ok" THEN [res |-> r.res, buf |-> <<>>]
        ELSE [res |-> "Ok", buf |-> OrdCond(order, invert_buffer(out), out)]

\* de_from_bytes_ordered(input, order): input is inverted in place for
\* Descending and then deserialized as de_from_bytes_ordered_asc does
de_from_bytes_ordered(T, input, order, dbg) ==
    LET buf == OrdCond(order, invert_buffer(input), input)
        r   == Deserializer_deserialize(T, DeBytesReader_new(buf), <<>>, AscendingOrder, dbg)
    IN  [res |-> r.res, v |-> r.v, buf |-> buf]

InitOrd ==
    /\ BufIdle
    /\ EncIdle
    /\ \E T \in Schemas, o \in Orders :
         \E v \in ValuesOf(T, 0) : sval = [v |-> v, t |-> T, p |-> o]
    /\ pc = "idle"
    /\ swr = DeBytesWriter_new(<<>>)
    /\ ssize = 0
    /\ sres = [res |-> "Ok", ret |-> 0]
    /\ srd = <<>>
    /\ dval = [res |-> "Ok", v |-> NoValue, lens |-> <<>>]

\* let mut encoded = ser_to_vec_ordered(&value, order)
SerToVecOrdered ==
    /\ pc = "idle"
    /\ \E r \in {ser_to_vec_ordered(sval.v, sval.p)} :
           /\ vecw' = r.buf
           /\ sres' = [res |-> r.res, ret |-> Len(r.buf)]
    /\ pc' = "encoded"
    /\ UNCHANGED <<written, rdOpen, rd, outs>>
    /\ UNCHANGED <<sval, swr, ssize, srd, dval>>
    /\ UNCHANGED bufVars

\* de_from_bytes_ordered(encoded.as_mut_slice(), order)
DeFromBytesOrdered ==
    /\ pc = "encoded"
    /\ sres.res = "Ok"
    /\ \E dbg \in BOOLEAN :
         \E r \in {de_from_bytes_ordered(sval.t, vecw, sval.p, dbg)} :
             /\ vecw' = r.buf
             /\ dval' = [res |-> r.res, v |-> r.v, lens |-> <<>>]
    /\ pc' = "decoded"
    /\ UNCHANGED <<written, rdOpen, rd, outs>>
    /\ UNCHANGED <<sval, swr, ssize, sres, srd>>
    /\ UNCHANGED bufVars

NextOrd == SerToVecOrdered \/ DeFromBytesOrdered

SpecOrd == InitOrd /\ [][NextOrd]_vars

(***************************************************************************)
(* varint.rs on full-width words: the same code as above, for values up to *)
(* u64::MAX.  A value is a word of 64 bits (u64) or 32 bits (u32).         *)
(***************************************************************************)
VarUInt_varu_encoded_len(v) ==
    IF Len(v) = 64 THEN LENGTHS64[WordLeadingZeros(v) + 1]
    ELSE LENGTHS32[WordLeadingZeros(v) + 1]

\* (*self << 1 | 1) << (length - 1)
VarUInt_encoded(v, length) ==
    WordShl(WordOr(WordShl(v, 1), WordOfNat(1, Len(v))), length - 1)

\* the encoding shifted by length instead of length - 1
VarUInt_varu_to_slice_shifted(v) ==
    LET length == VarUInt_varu_encoded_len(v)
    IN  [length |-> length,
         bytes  |-> WordToBytesLE(WordShl(WordOr(WordShl(v, 1), WordOfNat(1, Len(v))), length))
                        \o <<0>>]

\* varu_to_slice: the scratch array (9 or 5 bytes, zeroed) and the length
VarUInt_varu_to_slice(v) ==
    LET length == VarUInt_varu_encoded_len(v)
    IN  [length |-> length,
         bytes  |-> IF Len(v) = 64
                    THEN IF length = 9 THEN <<0>> \o WordToBytesLE(v)
                         ELSE WordToBytesLE(VarUInt_encoded(v, length)) \o <<0>>
                    ELSE IF length = 5 THEN <<240>> \o WordToBytesLE(v)
                         ELSE WordToBytesLE(VarUInt_encoded(v, length)) \o <<0>>]

\* varu_to_slice on a caller's slice `bytes` of any length and content:
\* bytes[1..].copy_from_slice(..) panics unless the rest of the slice is as
\* long as the integer, bytes[..8] / bytes[..4] panics on a shorter slice, and
\* the 64-bit encoder does not store the first byte of the 9-byte encoding
VarUInt_varu_to_slice_into(v, bytes) ==
    LET length == VarUInt_varu_encoded_len(v)
        n      == Len(v) \div 8
    IN  IF length = n + 1
        THEN IF Len(v) = 32 /\ bytes = <<>>
             THEN [res |-> "panic", length |-> 0, bytes |-> bytes]
             ELSE LET first == IF Len(v) = 32 THEN <<240>> \o Tail(bytes) ELSE bytes
                  IN  IF Len(bytes) # n + 1
                      THEN [res |-> "panic", length |-> 0, bytes |-> first]
                      ELSE [res |-> "Ok", length |-> length,
                            bytes |-> <<first[1]>> \o WordToBytesLE(v)]
        ELSE IF Len(bytes) < n
             THEN [res |-> "panic", length |-> 0, bytes |-> bytes]
             ELSE [res |-> "Ok", length |-> length,
                   bytes |-> WordToBytesLE(VarUInt_encoded(v, length))
                                 \o SubSeq(bytes, n + 1, Len(bytes))]

\* varu_to_writer: the two slices handed to writer.write, in call order
VarUInt_varu_to_writer(v) ==
    LET r == VarUInt_varu_to_slice(v)
    IN  <<<<r.bytes[1]>>, SubSeq(r.bytes, 2, r.length)>>

\* varu64_decode (bits = 64) / varu32_decode (bits = 32); dbg: the build has
\* debug_assertions.  varu32_decode is only called with a length of at most 5.
VarUInt_varu_decode(varu_encoded_length, first_byte, bytes, bits, dbg) ==
    IF Len(bytes) + 1 < varu_encoded_length
    THEN [res |-> "PrematureEndOfInput", v |-> WordZero(bits)]
    ELSE LET n == bits \div 8
             special == n + 1
             len == varu_encoded_length
             encoded == [k \in 1..n |-> IF k = 1 THEN first_byte
                                        ELSE IF k <= len THEN bytes[k - 1] ELSE 0]
             result ==
                IF len = special
                THEN WordOfBytesLE(SubSeq(bytes, 1, n))
                ELSE WordShr(WordOfBytesLE(encoded), len)
             floor == [i \in 1..bits |-> IF i = 7 * (len - 1) + 1 THEN 1 ELSE 0]
         IN  IF dbg /\ ~(len = 1 \/ WordGE(result, floor))
             THEN [res |-> "InvalidVarintEncoding", v |-> WordZero(bits)]
             ELSE [res |-> "Ok", v |-> result]

\* a varu_from_slice of u32 without the test of the announced length
VarUInt_varu_from_slice_anylen(bytes, bits, dbg) ==
    IF bytes = <<>> THEN [res |-> "PrematureEndOfInput", v |-> WordZero(bits), len |-> 0]
    ELSE LET len == varu_decoded_len(bytes[1])
             r == VarUInt_varu_decode(len, bytes[1], Tail(bytes), bits, dbg)
         IN  [res |-> r.res, v |-> r.v, len |-> IF r.res = "Ok" THEN len ELSE 0]

\* varu_from_slice of u64 (bits = 64) or u32 (bits = 32)
VarUInt_varu_from_slice(bytes, bits, dbg) ==
    IF bytes = <<>> THEN [res |-> "PrematureEndOfInput", v |-> WordZero(bits), len |-> 0]
    ELSE LET len == varu_decoded_len(bytes[1])
         IN  IF bits = 32 /\ len > 5
             THEN [res |-> "InvalidVarintEncoding", v |-> WordZero(bits), len |-> 0]
             ELSE LET r == VarUInt_varu_decode(len, bytes[1], Tail(bytes), bits, dbg)
                  IN  [res |-> r.res, v |-> r.v, len |-> IF r.res = "Ok" THEN len ELSE 0]

\* varu_from_reader over a DeBytesReader: the value and the reader left
VarUInt_varu_from_reader(b, bits, dbg) ==
    LET r1 == ReadBytes_read(b, 1)
    IN  IF r1.res # "Ok" THEN [res |-> r1.res, v |-> WordZero(bits), rd |-> r1.rd]
        ELSE LET first_byte == r1.bytes[1]
                 len == varu_decoded_len(first_byte)
             IN  IF bits = 32 /\ len > 5
                 THEN [res |-> "InvalidVarintEncoding", v |-> WordZero(bits), rd |-> r1.rd]
                 ELSE LET r2 == ReadBytes_read(r1.rd, len - 1)
                      IN  IF r2.res # "Ok"
                          THEN [res |-> r2.res, v |-> WordZero(bits), rd |-> r2.rd]
                          ELSE LET d == VarUInt_varu_decode(len, first_byte, r2.bytes, bits, dbg)
                               IN  [res |-> d.res, v |-> d.v,
                                    rd |-> IF d.res = "Ok" THEN r2.rd ELSE r1.rd]

\* the whole encoding handed over in one write
VarUInt_varu_to_writer_on_onewrite(w, v, tail) ==
    LET r == VarUInt_varu_to_slice(v)
    IN  IF tail THEN DeBytesWriter_write_tail(w, SubSeq(r.bytes, 1, r.length))
        ELSE DeBytesWriter_write(w, SubSeq(r.bytes, 1, r.length))

\* varu_to_writer on a DeBytesWriter (tail: wrapped in WriteToTail, whose
\* write is write_tail): writer.write(&[bytes[0]])?; writer.write(&bytes[1..length])
VarUInt_varu_to_writer_on(w, v, tail) ==
    LET s  == VarUInt_varu_to_writer(v)
        wb(x, b) == IF tail THEN DeBytesWriter_write_tail(x, b) ELSE DeBytesWriter_write(x, b)
        r1 == wb(w, s[1])
    IN  IF r1.res # "Ok" THEN r1 ELSE wb(r1.w, s[2])

\* varu_from_reader over a DeBytesReader or, tail, over ReadFromTail of it
VarUInt_varu_from_reader_on(b, tail, bits, dbg) ==
    LET rb(x, n) == IF tail THEN ReadFromTail_read(x, n) ELSE ReadBytes_read(x, n)
        r1 == rb(b, 1)
    IN  IF r1.res # "Ok" THEN [res |-> r1.res, v |-> WordZero(bits), rd |-> r1.rd]
        ELSE LET first_byte == r1.bytes[1]
                 len == varu_decoded_len(first_byte)
             IN  IF bits = 32 /\ len > 5
                 THEN [res |-> "InvalidVarintEncoding", v |-> WordZero(bits), rd |-> r1.rd]
                 ELSE LET r2 == rb(r1.rd, len - 1)
                      IN  IF r2.res # "Ok"
                          THEN [res |-> r2.res, v |-> WordZero(bits), rd |-> r2.rd]
                          ELSE LET d == VarUInt_varu_decode(len, first_byte, r2.bytes, bits, dbg)
                               IN  [res |-> d.res, v |-> d.v,
                                    rd |-> IF d.res = "Ok" THEN r2.rd ELSE r1.rd]

(***************************************************************************)
(* The varint codec as a state machine: one value is encoded into a        *)
(* Vec<u8> by the 32-bit or the 64-bit encoder, other bytes may follow it, *)
(* and the vector is decoded by the 32-bit or the 64-bit decoder, from the *)
(* slice or through a DeBytesReader.                                       *)
(***************************************************************************)
VarWidths == {32, 64}

\* for every bit length k: 2^k, 2^k - 1 and an alternating pattern of k bits
VarSample(bits) ==
    {[i \in 1..bits |-> IF i = k + 1 THEN 1 ELSE 0] : k \in 0..(bits - 1)}
      \cup {[i \in 1..bits |-> IF i <= k THEN 1 ELSE 0] : k \in 0..bits}
      \cup {[i \in 1..bits |-> IF i <= k /\ (k - i) % 2 = 0 THEN 1 ELSE 0] : k \in 0..bits}

\* what may follow the encoding in the vector
TrailingBytes == {<<0>>, <<255>>, <<1, 240>>}

InitVar ==
    /\ BufIdle
    /\ EncIdle
    /\ SerIdle

\* value.varu_to_writer(&mut vec)
VaruToWriter ==
    /\ written = <<>>
    /\ \E bits \in VarWidths :
         \E v \in VarSample(bits) :
            LET w   == VarUInt_varu_to_writer(v)
                enc == Vec_write(Vec_write(vecw, w[1]), w[2])
            IN  /\ vecw' = enc
                /\ written' = <<[kind |-> "varu", bits |-> bits, v |-> v,
                                 len |-> VarUInt_varu_encoded_len(v), enc |-> enc]>>
    /\ UNCHANGED <<rdOpen, rd, outs>>
    /\ UNCHANGED bufVars
    /\ UNCHANGED serVars

\* vec.write(more)
WriteTrailing ==
    /\ written # <<>>
    /\ vecw = written[1].enc
    /\ ~rdOpen
    /\ outs = <<>>
    /\ \E t \in TrailingBytes : vecw' = Vec_write(vecw, t)
    /\ UNCHANGED <<written, rdOpen, rd, outs>>
    /\ UNCHANGED bufVars
    /\ UNCHANGED serVars

\* <u64>::varu_from_slice(&vec) or <u32>::varu_from_slice(&vec)
VaruFromSlice ==
    /\ written # <<>>
    /\ ~rdOpen
    /\ outs = <<>>
    /\ \E bits \in VarWidths, dbg \in BOOLEAN :
         LET r == VarUInt_varu_from_slice(vecw, bits, dbg)
         IN  outs' = <<[how |-> "slice", bits |-> bits, res |-> r.res, v |-> r.v, len |-> r.len]>>
    /\ UNCHANGED <<vecw, written, rdOpen, rd>>
    /\ UNCHANGED bufVars
    /\ UNCHANGED serVars

\* DeBytesReader::new(&vec)
VarNewReader ==
    /\ written # <<>>
    /\ ~rdOpen
    /\ outs = <<>>
    /\ rdOpen' = TRUE
    /\ rd' = DeBytesReader_new(vecw)
    /\ UNCHANGED <<vecw, written, outs>>
    /\ UNCHANGED bufVars
    /\ UNCHANGED serVars

\* <u64>::varu_from_reader(&mut reader) or <u32>::varu_from_reader(&mut reader)
VaruFromReader ==
    /\ rdOpen
    /\ outs = <<>>
    /\ \E bits \in VarWidths, dbg \in BOOLEAN :
         LET r == VarUInt_varu_from_reader(rd, bits, dbg)
         IN  /\ rd' = r.rd
             /\ outs' = <<[how |-> "reader", bits |-> bits, res |-> r.res, v |-> r.v,
                           len |-> Len(rd) - Len(r.rd)]>>
    /\ UNCHANGED <<vecw, written, rdOpen>>
    /\ UNCHANGED bufVars
    /\ UNCHANGED serVars

NextVar ==
    \/ VaruToWriter
    \/ WriteTrailing
    \/ VaruFromSlice
    \/ VarNewReader
    \/ VaruFromReader

SpecVar == InitVar /\ [][NextVar]_vars

(***************************************************************************)
(* test_ser! of tests/test_primitives.rs: a primitive value serialized     *)
(* Ascending at the head and Descending at the tail of one DeBytesWriter,  *)
(* the buffer finalized, and both read back through one DeBytesReader.     *)
(***************************************************************************)
\* vec![0_u8; 128]
PrimBuf == 128

PrimKinds == {"int", "bool", "float"}

\* V_U8 .. V_I16, V_BOOL, V_F32 and V_F64: the values of a kind, each with
\* its type
PrimValues(kind) ==
    CASE kind = "int" ->
           UNION {{[kind |-> kind, t |-> t, x |-> x] : x \in IntSample(t)} : t \in IntTypes}
      [] kind = "bool" ->
           {[kind |-> kind, t |-> [w |-> 1, s |-> FALSE], x |-> b] : b \in BOOLEAN}
      [] kind = "float" ->
           UNION {{[kind |-> kind, t |-> t, x |-> f] : f \in FloatSample(t.w)} : t \in FloatTypes}

\* primitives::serialize_*(writer, value, order): the bytes handed to write()
primitives_serialize(v, order) ==
    CASE v.kind = "int" -> serialize_int(v.x, v.t, order)
      [] v.kind = "bool" -> serialize_bool(v.x, order)
      [] v.kind = "float" -> serialize_float(WordOfBytesBE(v.x), order)

\* primitives::deserialize_*(reader, order): read size_of::<T>() bytes from
\* the reader (tail: the reader is wrapped in ReadFromTail), then decode
primitives_deserialize(b, kind, t, order, tail) ==
    LET r == IF tail THEN ReadFromTail_read(b, t.w) ELSE ReadBytes_read(b, t.w)
    IN  IF r.res # "Ok" THEN [res |-> r.res, v |-> <<>>, rd |-> r.rd]
        ELSE [res |-> "Ok",
              v |-> CASE kind = "int" -> deserialize_int(r.bytes, t, order).v
                      [] kind = "bool" -> deserialize_bool(r.bytes, order)
                      [] kind = "float" -> WordToBytesBE(deserialize_float(r.bytes, order)),
              rd |-> r.rd]

\* let buf = &mut vec![0_u8; 128]; let mut bb = DeBytesWriter::new(buf)
InitPrim ==
    /\ wr = DeBytesWriter_new(Zeros(PrimBuf))
    /\ op = [name |-> "new", arg |-> <<>>, res |-> "Ok", ret |-> 0]
    /\ headLog = <<>>
    /\ tailLog = <<>>
    /\ nfin = 0
    /\ EncIdle
    /\ SerIdle

\* primitives::$sfn(&mut bb, *val, AscendingOrder)
PrimSerializeHead ==
    /\ written = <<>>
    /\ \E kind \in PrimKinds : \E v \in PrimValues(kind) :
         LET enc == primitives_serialize(v, "Ascending")
             r == DeBytesWriter_write(wr, enc)
         IN  /\ wr' = r.w
             /\ op' = [name |-> "write", arg |-> enc, res |-> r.res, ret |-> 0]
             /\ headLog' = IF r.res = "Ok" THEN headLog \o enc ELSE headLog
             /\ written' = <<[kind |-> v.kind, t |-> v.t, n |-> 0, x |-> v.x,
                              ord |-> "Ascending", enc |-> enc]>>
    /\ UNCHANGED <<tailLog, nfin, vecw, rdOpen, rd, outs>>
    /\ UNCHANGED serVars

\* primitives::$sfn(WriteToTail(&mut bb), *val, DescendingOrder)
PrimSerializeTail ==
    /\ Len(written) = 1
    /\ LET v == written[1]
           enc == primitives_serialize(v, "Descending")
           r == DeBytesWriter_write_tail(wr, enc)
       IN  /\ wr' = r.w
           /\ op' = [name |-> "write_tail", arg |-> enc, res |-> r.res, ret |-> 0]
           /\ tailLog' = IF r.res = "Ok" THEN enc \o tailLog ELSE tailLog
           /\ written' = Append(written, [v EXCEPT !.ord = "Descending", !.enc = enc])
    /\ UNCHANGED <<headLog, nfin, vecw, rdOpen, rd, outs>>
    /\ UNCHANGED serVars

\* let nl = bb.finalize().unwrap()
PrimFinalize ==
    /\ Len(written) = 2
    /\ nfin = 0
    /\ LET r == DeBytesWriter_finalize(wr)
       IN  /\ wr' = r.w
           /\ op' = [name |-> "finalize", arg |-> <<>>, res |-> "Ok", ret |-> r.ret]
    /\ nfin' = nfin + 1
    /\ UNCHANGED <<headLog, tailLog>>
    /\ UNCHANGED encVars
    /\ UNCHANGED serVars

\* let mut r = DeBytesReader::new(&buf[..nl])
PrimNewReader ==
    /\ nfin = 1
    /\ ~rdOpen
    /\ rdOpen' = TRUE
    /\ rd' = DeBytesReader_new(SubSeq(wr.buf, 1, op.ret))
    /\ UNCHANGED <<vecw, written, outs>>
    /\ UNCHANGED bufVars
    /\ UNCHANGED serVars

\* primitives::$dfn(&mut r, AscendingOrder)
PrimDeserializeHead ==
    /\ rdOpen
    /\ outs = <<>>
    /\ LET r == primitives_deserialize(rd, written[1].kind, written[1].t, "Ascending", FALSE)
       IN  /\ rd' = r.rd
           /\ outs' = <<[res |-> r.res, out |-> r.v]>>
    /\ UNCHANGED <<vecw, written, rdOpen>>
    /\ UNCHANGED bufVars
    /\ UNCHANGED serVars

\* primitives::$dfn(ReadFromTail(&mut r), DescendingOrder)
PrimDeserializeTail ==
    /\ rdOpen
    /\ Len(outs) = 1
    /\ LET r == primitives_deserialize(rd, written[1].kind, written[1].t, "Descending", TRUE)
       IN  /\ rd' = r.rd
           /\ outs' = Append(outs, [res |-> r.res, out |-> r.v])
    /\ UNCHANGED <<vecw, written, rdOpen>>
    /\ UNCHANGED bufVars
    /\ UNCHANGED serVars

NextPrim ==
    \/ PrimSerializeHead
    \/ PrimSerializeTail
    \/ PrimFinalize
    \/ PrimNewReader
    \/ PrimDeserializeHead
    \/ PrimDeserializeTail

SpecPrim == InitPrim /\ [][NextPrim]_vars

(***************************************************************************)
(* cmp_esc_bytes_nested and test_esc_enclen of tests/test_primitives.rs:   *)
(* a byte string escaped, the escaped bytes escaped again under the same   *)
(* order, and each level unescaped by deserialize_bytes_to_vec through a   *)
(* reader of its own.                                                      *)
(***************************************************************************)
\* 0x00, TERM, 0x07, START, 0xFE, ESC
NestBytes == {0, 1, 7, 248, 254, 255}

NestStrings == SeqsUpTo(NestBytes, MaxLen)

InitEsc ==
    /\ BufIdle
    /\ EncIdle
    /\ SerIdle

\* bytes_esc::serialize_bytes(&mut s1, data, param), then
\* bytes_esc::serialize_bytes(&mut s2, &s1, param): each into a new Vec
EscSerialize ==
    /\ ~rdOpen
    /\ outs = <<>>
    /\ Len(written) < 2
    /\ \E x \in IF written = <<>> THEN NestStrings ELSE {written[1].enc},
          o \in IF written = <<>> THEN Orders ELSE {written[1].ord} :
         LET enc == serialize_bytes(x, o)
         IN  /\ vecw' = Vec_write(<<>>, enc)
             /\ written' = Append(written,
                   [kind |-> "bytes", t |-> NoType, n |-> 0, x |-> x, ord |-> o, enc |-> enc])
    /\ UNCHANGED <<rdOpen, rd, outs>>
    /\ UNCHANGED bufVars
    /\ UNCHANGED serVars

\* DeBytesReader::new(&s2), or DeBytesReader::new(&dv2) over what the outer
\* level unescaped to
EscNewReader ==
    /\ ~rdOpen
    /\ written # <<>>
    /\ Len(outs) < Len(written)
    /\ rdOpen' = TRUE
    /\ rd' = DeBytesReader_new(IF outs = <<>> THEN vecw ELSE outs[Len(outs)].out)
    /\ UNCHANGED <<vecw, written, outs>>
    /\ UNCHANGED bufVars
    /\ UNCHANGED serVars

\* bytes_esc::deserialize_bytes_to_vec(&mut r, param); the reader is not
\* used again
EscDeserializeToVec ==
    /\ rdOpen
    /\ LET r == deserialize_bytes_to_vec(rd, written[1].ord)
       IN  /\ rd' = DeBytesReader_advance(rd, r.adv)
           /\ outs' = Append(outs, [res |-> r.res, out |-> r.out, cap |-> r.cap])
    /\ rdOpen' = FALSE
    /\ UNCHANGED <<vecw, written>>
    /\ UNCHANGED bufVars
    /\ UNCHANGED serVars

NextEsc ==
    \/ EscSerialize
    \/ EscNewReader
    \/ EscDeserializeToVec

SpecEsc == InitEsc /\ [][NextEsc]_vars

(***************************************************************************)
(* test_debuffer of buf.rs: head and tail writes interleaved on one        *)
(* DeBytesWriter until the slice is full, then head and tail reads         *)
(* interleaved on a DeBytesReader over the slice.  The bytes written are   *)
(* numbered in write order, so that every byte of the slice is distinct.   *)
(***************************************************************************)
\* the next n bytes to write: numbered on from the bytes written so far
NextChunk(n) == [i \in 1..n |-> Len(headLog) + Len(tailLog) + i]

\* let mut byte_buf = vec![0_u8; n]; let mut bib = DeBytesWriter::new(..)
InitRW ==
    /\ \E n \in 0..MaxBuf : wr = DeBytesWriter_new(Zeros(n))
    /\ op = [name |-> "new", arg |-> <<>>, res |-> "Ok", ret |-> 0]
    /\ headLog = <<>>
    /\ tailLog = <<>>
    /\ nfin = 0
    /\ EncIdle
    /\ SerIdle

\* bib.write(chunk); written: the chunks of the successful non-empty writes
RwWrite ==
    /\ ~rdOpen
    /\ \E n \in 0..MaxArg :
         LET v == NextChunk(n)
             r == DeBytesWriter_write(wr, v)
         IN  /\ wr' = r.w
             /\ op' = [name |-> "write", arg |-> v, res |-> r.res, ret |-> 0]
             /\ headLog' = IF r.res = "Ok" THEN headLog \o v ELSE headLog
             /\ written' = IF r.res = "Ok" /\ n > 0
                           THEN Append(written, [kind |-> "head", enc |-> v])
                           ELSE written
    /\ UNCHANGED <<tailLog, nfin, vecw, rdOpen, rd, outs>>
    /\ UNCHANGED serVars

\* bib.write_tail(chunk)
RwWriteTail ==
    /\ ~rdOpen
    /\ \E n \in 0..MaxArg :
         LET v == NextChunk(n)
             r == DeBytesWriter_write_tail(wr, v)
         IN  /\ wr' = r.w
             /\ op' = [name |-> "write_tail", arg |-> v, res |-> r.res, ret |-> 0]
             /\ tailLog' = IF r.res = "Ok" THEN v \o tailLog ELSE tailLog
             /\ written' = IF r.res = "Ok" /\ n > 0
                           THEN Append(written, [kind |-> "tail", enc |-> v])
                           ELSE written
    /\ UNCHANGED <<headLog, nfin, vecw, rdOpen, rd, outs>>
    /\ UNCHANGED serVars

\* bib.is_complete().unwrap(); let mut rb = DeBytesReader::new(byte_buf.as_slice())
RwNewReader ==
    /\ ~rdOpen
    /\ DeBytesWriter_is_complete(wr) = "Ok"
    /\ rdOpen' = TRUE
    /\ rd' = DeBytesReader_new(wr.buf)
    /\ op' = [name |-> "reader", arg |-> <<>>, res |-> "Ok", ret |-> 0]
    /\ UNCHANGED <<wr, headLog, tailLog, nfin, vecw, written, outs>>
    /\ UNCHANGED serVars

\* rb.read(n, f); vecw: the bytes the successful head reads returned, in
\* read order
RwRead ==
    /\ rdOpen
    /\ \E n \in 0..MaxArg, f \in Inspectors :
         LET r == ReadBytes_read_f(rd, n, f)
         IN  /\ rd' = r.rd
             /\ op' = [name |-> "read", arg |-> r.val, res |-> r.res, ret |-> n,
                       f |-> f, called |-> r.called]
             /\ vecw' = IF r.res = "Ok" THEN vecw \o r.val ELSE vecw
    /\ UNCHANGED <<wr, headLog, tailLog, nfin, outs, written, rdOpen>>
    /\ UNCHANGED serVars

\* rb.read_tail(n, f); outs: the non-empty slices the successful tail reads
\* returned, in read order
RwReadTail ==
    /\ rdOpen
    /\ \E n \in 0..MaxArg, f \in Inspectors :
         LET r == TailReadBytes_read_tail(rd, n, f)
         IN  /\ rd' = r.rd
             /\ op' = [name |-> "read_tail", arg |-> r.val, res |-> r.res, ret |-> n,
                       f |-> f, called |-> r.called]
             /\ outs' = IF r.res = "Ok" /\ n > 0
                        THEN Append(outs, [how |-> "read_tail", bytes |-> r.val])
                        ELSE outs
    /\ UNCHANGED <<wr, headLog, tailLog, nfin, vecw, written, rdOpen>>
    /\ UNCHANGED serVars

\* rb.is_complete()
RwIsComplete ==
    /\ rdOpen
    /\ op' = [name |-> "is_complete", arg |-> <<>>,
              res |-> DeBytesReader_is_complete(rd), ret |-> 0]
    /\ UNCHANGED <<wr, headLog, tailLog, nfin>>
    /\ UNCHANGED encVars
    /\ UNCHANGED serVars

NextRW ==
    \/ RwWrite
    \/ RwWriteTail
    \/ RwNewReader
    \/ RwRead
    \/ RwReadTail
    \/ RwIsComplete

SpecRW == InitRW /\ [][NextRW]_vars

(***************************************************************************)
(* test_esc_enclen of tests/test_primitives.rs: a byte string escaped into *)
(* a vector, other bytes after it, bytes_length on a reader over the       *)
(* vector and then deserialize_bytes_to_writer on the same reader.         *)
(***************************************************************************)
\* the bytes that follow the escaped string in the vector
LenTrailing == SeqsUpTo(NestBytes, MaxLen)

InitLen ==
    /\ BufIdle
    /\ EncIdle
    /\ SerIdle

\* bytes_esc::serialize_bytes(&mut s, v.as_slice(), order)
LenSerialize ==
    /\ pc = "idle"
    /\ \E x \in NestStrings, o \in Orders :
         LET enc == serialize_bytes(x, o)
         IN  /\ vecw' = Vec_write(vecw, enc)
             /\ written' = <<[kind |-> "bytes", t |-> NoType, n |-> 0, x |-> x,
                              ord |-> o, enc |-> enc]>>
    /\ pc' = "escaped"
    /\ UNCHANGED <<rdOpen, rd, outs>>
    /\ UNCHANGED bufVars
    /\ UNCHANGED <<sval, swr, ssize, sres, srd, dval>>

\* s.write(trailing): what follows the escaped string
LenWriteTrailing ==
    /\ pc = "escaped"
    /\ \E t \in LenTrailing : vecw' = Vec_write(vecw, t)
    /\ pc' = "written"
    /\ UNCHANGED <<written, rdOpen, rd, outs>>
    /\ UNCHANGED bufVars
    /\ UNCHANGED <<sval, swr, ssize, sres, srd, dval>>

\* let mut r = DeBytesReader::new(&s)
LenNewReader ==
    /\ pc = "written"
    /\ rdOpen' = TRUE
    /\ rd' = DeBytesReader_new(vecw)
    /\ pc' = "reader"
    /\ UNCHANGED <<vecw, written, outs>>
    /\ UNCHANGED bufVars
    /\ UNCHANGED <<sval, swr, ssize, sres, srd, dval>>

\* let len = bytes_esc::bytes_length(&mut r, order); sres: its result
LenBytesLength ==
    /\ pc = "reader"
    /\ \E r \in {bytes_length(rd, written[1].ord)} :
         /\ rd' = DeBytesReader_advance(rd, r.adv)
         /\ sres' = [res |-> r.res, ret |-> r.len]
    /\ pc' = "measured"
    /\ UNCHANGED <<vecw, written, rdOpen, outs>>
    /\ UNCHANGED bufVars
    /\ UNCHANGED <<sval, swr, ssize, srd, dval>>

\* bytes_esc::deserialize_bytes_to_writer(&mut r, &mut out, order)
LenDeserialize ==
    /\ pc = "measured"
    /\ \E r \in {deserialize_bytes_to_writer(rd, written[1].ord)} :
         /\ rd' = DeBytesReader_advance(rd, r.adv)
         /\ outs' = <<[res |-> r.res, out |-> r.out]>>
    /\ pc' = "decoded"
    /\ UNCHANGED <<vecw, written, rdOpen>>
    /\ UNCHANGED bufVars
    /\ UNCHANGED <<sval, swr, ssize, sres, srd, dval>>

NextLen ==
    \/ LenSerialize
    \/ LenWriteTrailing
    \/ LenNewReader
    \/ LenBytesLength
    \/ LenDeserialize

SpecLen == InitLen /\ [][NextLen]_vars

(***************************************************************************)
(* The decoders on input that no encoder wrote: a vector of arbitrary      *)
(* bytes decoded as an escaped byte sequence or as a varint, from the      *)
(* slice or through a DeBytesReader (decode_truncated of test_varint.rs).  *)
(***************************************************************************)
\* byte strings over the escape alphabets of both orders, one longer than
\* the strings the encoders are given
EscMalInputs == SeqsUpTo(NestBytes, MaxLen + 1)

\* first bytes announcing the lengths 1, 2, 4, 5, 6, 8, 9 and the 5-byte
\* mark of u32
VarFirstBytes == {1, 2, 8, 16, 32, 128, 0, 240}

\* a first byte followed by 0 to 9 equal bytes
VarMalInputs ==
    {<<f>> \o [i \in 1..k |-> fill] : f \in VarFirstBytes, k \in 0..9, fill \in {0, 255}}

InitMal ==
    /\ BufIdle
    /\ \E input \in {<<>>} \cup EscMalInputs \cup VarMalInputs : vecw = input
    /\ written = <<>>
    /\ rdOpen = FALSE
    /\ rd = <<>>
    /\ outs = <<>>
    /\ SerIdle

\* DeBytesReader::new(&input)
MalNewReader ==
    /\ ~rdOpen
    /\ outs = <<>>
    /\ rdOpen' = TRUE
    /\ rd' = DeBytesReader_new(vecw)
    /\ UNCHANGED <<vecw, written, outs>>
    /\ UNCHANGED bufVars
    /\ UNCHANGED serVars

\* bytes_esc::deserialize_bytes_to_writer(&mut reader, &mut out, order)
MalDeserializeBytes ==
    /\ rdOpen
    /\ outs = <<>>
    /\ \E o \in Orders :
         \E r \in {deserialize_bytes_to_writer(rd, o)} :
            /\ rd' = DeBytesReader_advance(rd, r.adv)
            /\ outs' = <<[kind |-> "esc", ord |-> o, res |-> r.res, out |-> r.out]>>
    /\ UNCHANGED <<vecw, written, rdOpen>>
    /\ UNCHANGED bufVars
    /\ UNCHANGED serVars

\* <u64>::varu_from_slice(&input) or <u32>::varu_from_slice(&input)
MalVaruFromSlice ==
    /\ ~rdOpen
    /\ outs = <<>>
    /\ \E bits \in VarWidths, dbg \in BOOLEAN :
         \E r \in {VarUInt_varu_from_slice(vecw, bits, dbg)} :
            outs' = <<[kind |-> "varu", how |-> "slice", bits |-> bits, res |-> r.res]>>
    /\ UNCHANGED <<vecw, written, rdOpen, rd>>
    /\ UNCHANGED bufVars
    /\ UNCHANGED serVars

\* <u64>::varu_from_reader(&mut reader) or <u32>::varu_from_reader(&mut reader)
MalVaruFromReader ==
    /\ rdOpen
    /\ outs = <<>>
    /\ \E bits \in VarWidths, dbg \in BOOLEAN :
         \E r \in {VarUInt_varu_from_reader(rd, bits, dbg)} :
            /\ rd' = r.rd
            /\ outs' = <<[kind |-> "varu", how |-> "reader", bits |-> bits, res |-> r.res]>>
    /\ UNCHANGED <<vecw, written, rdOpen>>
    /\ UNCHANGED bufVars
    /\ UNCHANGED serVars

NextMal ==
    \/ MalNewReader
    \/ MalDeserializeBytes
    \/ MalVaruFromSlice
    \/ MalVaruFromReader

SpecMal == InitMal /\ [][NextMal]_vars

(***************************************************************************)
(* varu_to_slice on a slice of the caller: a slice of some length, zeroed  *)
(* or filled with 0xAA, is allocated and one value is encoded into it.     *)
(***************************************************************************)
MaxSlice == 10

SliceFill == {0, 170}

InitSl ==
    /\ BufIdle
    /\ EncIdle
    /\ SerIdle

\* let mut bytes = [fill; n]
SlAlloc ==
    /\ written = <<>>
    /\ \E n \in 0..MaxSlice, fill \in SliceFill :
         /\ vecw' = [i \in 1..n |-> fill]
         /\ written' = <<[kind |-> "slice", len |-> n, fill |-> fill]>>
    /\ UNCHANGED <<rdOpen, rd, outs>>
    /\ UNCHANGED bufVars
    /\ UNCHANGED serVars

\* value.varu_to_slice(&mut bytes)
SlVaruToSlice ==
    /\ written # <<>>
    /\ outs = <<>>
    /\ \E bits \in VarWidths :
         \E v \in VarSample(bits) :
            \E r \in {VarUInt_varu_to_slice_into(v, vecw)} :
               /\ outs' = <<[bits |-> bits, v |-> v, slice |-> vecw,
                              res |-> r.res, ret |-> r.length]>>
               /\ vecw' = r.bytes
    /\ UNCHANGED <<written, rdOpen, rd>>
    /\ UNCHANGED bufVars
    /\ UNCHANGED serVars

NextSl ==
    \/ SlAlloc
    \/ SlVaruToSlice

SpecSl == InitSl /\ [][NextSl]_vars

(***************************************************************************)
(* test_varint.rs with_buffer: varints are encoded at the head of a        *)
(* DeBytesWriter over a zeroed vector and one through WriteToTail, in any  *)
(* order; a DeBytesReader over the vector decodes them from the head and   *)
(* through ReadFromTail, in any order.                                     *)
(***************************************************************************)
WithBufferLen == 10

MaxHeadVarints == 2

\* the value of the test (one byte) and a two-byte value
HeadValues == {WordOfNat(11, 64), WordOfNat(300, 64)}

KindCount(log, kind) == Cardinality({i \in 1..Len(log) : log[i].kind = kind})

InitTv ==
    /\ wr = DeBytesWriter_new(Zeros(WithBufferLen))
    /\ op = [name |-> "new", arg |-> <<>>, res |-> "Ok", ret |-> 0]
    /\ headLog = <<>>
    /\ tailLog = <<>>
    /\ nfin = 0
    /\ EncIdle
    /\ SerIdle

\* varu64_encode_to_writer(&mut bib, v)
TvEncodeHead ==
    /\ ~rdOpen
    /\ KindCount(written, "head") < MaxHeadVarints
    /\ \E v \in HeadValues :
         \E r \in {VarUInt_varu_to_writer_on(wr, v, FALSE)} :
            /\ wr' = r.w
            /\ written' = Append(written, [kind |-> "head", v |-> v, res |-> r.res])
    /\ UNCHANGED <<op, headLog, tailLog, nfin, vecw, rdOpen, rd, outs>>
    /\ UNCHANGED serVars

\* varu64_encode_to_writer(WriteToTail(&mut bib), v)
TvEncodeTail ==
    /\ ~rdOpen
    /\ KindCount(written, "tail") = 0
    /\ \E v \in VarSample(64) :
         \E r \in {VarUInt_varu_to_writer_on(wr, v, TRUE)} :
            /\ wr' = r.w
            /\ written' = Append(written, [kind |-> "tail", v |-> v, res |-> r.res])
    /\ UNCHANGED <<op, headLog, tailLog, nfin, vecw, rdOpen, rd, outs>>
    /\ UNCHANGED serVars

\* DeBytesReader::new(&buf)
TvNewReader ==
    /\ ~rdOpen
    /\ KindCount(written, "tail") = 1
    /\ rdOpen' = TRUE
    /\ rd' = DeBytesReader_new(wr.buf)
    /\ UNCHANGED <<vecw, written, outs>>
    /\ UNCHANGED bufVars
    /\ UNCHANGED serVars

\* varu64_decode_from_reader(ReadFromTail(&mut r))
TvDecodeTail ==
    /\ rdOpen
    /\ KindCount(outs, "tail") = 0
    /\ \E dbg \in BOOLEAN :
         \E r \in {VarUInt_varu_from_reader_on(rd, TRUE, 64, dbg)} :
            /\ rd' = r.rd
            /\ outs' = Append(outs, [kind |-> "tail", v |-> r.v, res |-> r.res])
    /\ UNCHANGED <<vecw, written, rdOpen>>
    /\ UNCHANGED bufVars
    /\ UNCHANGED serVars

\* varu64_decode_from_reader(&mut r), once per varint encoded at the head
TvDecodeHead ==
    /\ rdOpen
    /\ KindCount(outs, "head") < KindCount(written, "head")
    /\ \A i \in 1..Len(written) : written[i].res = "Ok"
    /\ \E dbg \in BOOLEAN :
         \E r \in {VarUInt_varu_from_reader_on(rd, FALSE, 64, dbg)} :
            /\ rd' = r.rd
            /\ outs' = Append(outs, [kind |-> "head", v |-> r.v, res |-> r.res])
    /\ UNCHANGED <<vecw, written, rdOpen>>
    /\ UNCHANGED bufVars
    /\ UNCHANGED serVars

NextTv ==
    \/ TvEncodeHead
    \/ TvEncodeTail
    \/ TvNewReader
    \/ TvDecodeTail
    \/ TvDecodeHead

SpecTv == InitTv /\ [][NextTv]_vars

(***************************************************************************)
(* Claims about the double-ended writer (specification Spec).              *)
(***************************************************************************)

\* C7: after successful write / write_tail calls that wrote H head bytes and
\* T tail bytes, the first finalize() returns H + T, the slice prefix
\* [0..H+T) holds the head bytes in write order followed by the bytes that
\* were in [N-T..N) before the call, and the cursors are equal afterwards.
\* Before finalize the tail region [tail..N) is exactly the tail bytes.
C7_FinalizeCollapses ==
    /\ nfin = 0 => SubSeq(wr.buf, wr.tail + 1, Len(wr.buf)) = tailLog
    /\ nfin = 1 =>
          /\ SubSeq(wr.buf, 1, Len(headLog) + Len(tailLog)) = headLog \o tailLog
          /\ wr.head = wr.tail
    /\ (nfin = 1 /\ op.name = "finalize") => op.ret = Len(headLog) + Len(tailLog)

\* a finalize that had to move a non-empty tail over a gap, after head writes
C7_Witness ==
    /\ nfin = 1
    /\ op.name = "finalize"
    /\ Len(headLog) > 0
    /\ Len(tailLog) > 1
    /\ op.ret < Len(wr.buf)

\* C8: in every state reachable by write, write_tail and finalize calls,
\* successful or failing, 0 <= head <= tail <= slice.len().
C8_CursorInvariant ==
    /\ 0 <= wr.head
    /\ wr.head <= wr.tail
    /\ wr.tail <= Len(wr.buf)

\* a failing tail write on a writer whose cursors have both moved
C8_Witness ==
    /\ op.name = "write_tail"
    /\ op.res = "BufferOverflow"
    /\ 0 < wr.head
    /\ wr.head < wr.tail
    /\ wr.tail < Len(wr.buf)

\* C9: write(v) and write_tail(v) return Err(BufferOverflow) exactly when
\* head + len(v) > tail; a write that exactly fills the gap and any
\* zero-length write succeed.
C9_OverflowExactlyWhenCrossing ==
    [][op'.name \in {"write", "write_tail"} =>
          /\ (op'.res = "BufferOverflow") <=> (wr.head + Len(op'.arg) > wr.tail)
          /\ (op'.res = "Ok") <=> (wr.head + Len(op'.arg) <= wr.tail)
          /\ Len(op'.arg) = 0 => op'.res = "Ok"]_vars

\* a non-empty write that exactly filled the gap and succeeded
C9_Witness ==
    /\ op.name \in {"write", "write_tail"}
    /\ op.res = "Ok"
    /\ Len(op.arg) > 0
    /\ wr.head = wr.tail
    /\ nfin = 0

(***************************************************************************)
(* Claims about the primitive encoders (specification SpecEnc).            *)
(***************************************************************************)
WrittenPairs == (1..Len(written)) \X (1..Len(written))

\* C1: two integers of one type, serialized under one order, have encodings
\* of the type's width in bytes, and the bytewise lexicographic comparison of
\* the encodings equals the numeric comparison of the values under Ascending
\* and its reverse under Descending.
C1_IntOrderPreserved ==
    \A p \in WrittenPairs :
        LET a == written[p[1]]
            b == written[p[2]]
        IN  (a.kind = "int" /\ b.kind = "int" /\ a.ord = b.ord) =>
                /\ Len(a.enc) = a.t.w
                /\ Len(b.enc) = a.t.w
                /\ a.ord = "Ascending" => LexCmp(a.enc, b.enc) = IntCmp(a.n, b.n)
                /\ a.ord = "Descending" => LexCmp(a.enc, b.enc) = IntCmp(b.n, a.n)

\* a negative and a positive 16-bit signed integer, both written Descending
C1_Witness ==
    /\ Len(written) = 2
    /\ written[1].kind = "int"
    /\ written[1].t = [w |-> 2, s |-> TRUE]
    /\ written[1].n < 0
    /\ written[2].n > 0
    /\ written[1].ord = "Descending"
    /\ written[2].ord = "Descending"

\* C3: two byte strings escaped under Ascending compare, bytewise, as the
\* strings themselves compare, a proper prefix sorting first.
C3_EscapedOrderPreserved ==
    \A p \in WrittenPairs :
        LET a == written[p[1]]
            b == written[p[2]]
        IN  (a.kind = "bytes" /\ b.kind = "bytes"
                /\ a.ord = "Ascending" /\ b.ord = "Ascending") =>
                LexCmp(a.enc, b.enc) = LexCmp(a.x, b.x)

\* the empty string and a string starting below START, both escaped Ascending
C3_FailingInput ==
    /\ Len(written) = 2
    /\ written[1].kind = "bytes"
    /\ written[1].ord = "Ascending"
    /\ written[2].ord = "Ascending"
    /\ written[1].x = <<>>
    /\ written[2].x = <<1>>
    /\ LexCmp(written[1].x, written[2].x) = -1
    /\ LexCmp(written[1].enc, written[2].enc) = 1

\* C4: over the concatenation of the escapings of x and y, the first decode
\* yields exactly x and leaves the reader at the start of y's escaping; the
\* second decode yields y and leaves the reader exhausted.
C4_ConcatenatedDecode ==
    (rdOpen /\ Len(written) = 2) =>
        /\ Len(outs) >= 1 => outs[1] = [res |-> "Ok", out |-> written[1].x]
        /\ Len(outs) = 1 => rd = written[2].enc
        /\ Len(outs) = 2 => (outs[2] = [res |-> "Ok", out |-> written[2].x] /\ rd = <<>>)

\* x = [0x01], y = []: the first decode has left the reader inside x's escaping
C4_FailingInput ==
    /\ rdOpen
    /\ Len(written) = 2
    /\ written[1].x = <<1>>
    /\ written[2].x = <<>>
    /\ written[1].ord = "Ascending"
    /\ Len(outs) = 1
    /\ outs[1] = [res |-> "Ok", out |-> <<1>>]
    /\ rd # written[2].enc

\* C10: for one input, the output of an integer encoder, of serialize_bytes
\* and of serialize_bytes_noesc under Descending is the bytewise complement of
\* the output under Ascending; the Descending escape alphabet is START 0x07,
\* ESC 0x00, TERM 0xFE; u16 258 is 01 02 Ascending and FE FD Descending.
C10_DescendingIsComplement ==
    /\ BSTR_ESCAPE_DESC = [start |-> 7, esc |-> 0, term |-> 254]
    /\ \A p \in WrittenPairs :
        LET a == written[p[1]]
            b == written[p[2]]
        IN  (a.kind = b.kind /\ a.t = b.t /\ a.n = b.n /\ a.x = b.x
                /\ a.ord = "Ascending" /\ b.ord = "Descending") =>
                b.enc = Complement(a.enc)
    /\ \A i \in 1..Len(written) :
        (written[i].kind = "int" /\ written[i].t = [w |-> 2, s |-> FALSE]
            /\ written[i].n = 258) =>
            written[i].enc = OrdCond(written[i].ord, <<254, 253>>, <<1, 2>>)

\* a string holding the escaped byte, escaped under both orders
C10_Witness ==
    /\ Len(written) = 2
    /\ written[1].kind = "bytes"
    /\ written[1].x = <<248, 1>>
    /\ written[2].x = <<248, 1>>
    /\ written[1].ord = "Ascending"
    /\ written[2].ord = "Descending"
    /\ written[2].enc = <<7, 0, 254, 7, 254>>

\* the number of bytes of s equal to b
CountByte(s, b) == Cardinality({i \in 1..Len(s) : s[i] = b})

\* C16: serialize_bytes(B, Ascending) emits, for each byte of B in order,
\* F8 FF for the byte F8 and the byte itself otherwise, then the terminator
\* F8 01: the output is len(B) + count(F8 in B) + 2 bytes long, every F8 in it
\* but the last is followed by FF, and it ends with the only F8 01 pair;
\* [F8] gives F8 FF F8 01 and [] gives F8 01.
C16_EscapedFormat ==
    \A k \in 1..Len(written) :
        LET B   == written[k].x
            enc == written[k].enc
            n   == Len(enc)
            at(i) == i + CountByte(SubSeq(B, 1, i - 1), 248)
        IN  (written[k].kind = "bytes" /\ written[k].ord = "Ascending") =>
                /\ n = Len(B) + CountByte(B, 248) + 2
                /\ \A i \in 1..Len(B) :
                      /\ enc[at(i)] = B[i]
                      /\ B[i] = 248 => enc[at(i) + 1] = 255
                /\ enc[n - 1] = 248 /\ enc[n] = 1
                /\ \A j \in 1..(n - 2) : enc[j] = 248 => enc[j + 1] = 255
                /\ \A j \in 1..(n - 2) : ~(enc[j] = 248 /\ enc[j + 1] = 1)
                /\ B = <<248>> => enc = <<248, 255, 248, 1>>
                /\ B = <<>> => enc = <<248, 1>>

\* the string F8 01 (START then TERM as content), escaped Ascending
C16_Witness ==
    /\ Len(written) >= 1
    /\ written[1].kind = "bytes"
    /\ written[1].ord = "Ascending"
    /\ written[1].x = <<248, 1>>
    /\ written[1].enc = <<248, 255, 1, 248, 1>>

IsPrefix(s, t) == Len(s) <= Len(t) /\ SubSeq(t, 1, Len(s)) = s

\* C18: the escaped encoding is prefix-free: for two different byte strings
\* escaped under one order, neither encoding is a prefix of the other.
C18_PrefixFree ==
    \A p \in WrittenPairs :
        LET a == written[p[1]]
            b == written[p[2]]
        IN  (a.kind = "bytes" /\ b.kind = "bytes" /\ a.ord = b.ord /\ a.x # b.x) =>
                ~IsPrefix(a.enc, b.enc)

\* a string and a proper prefix of it that ends in START, escaped Descending
C18_Witness ==
    /\ Len(written) = 2
    /\ written[1].kind = "bytes"
    /\ written[1].ord = "Descending"
    /\ written[2].ord = "Descending"
    /\ written[1].x = <<248>>
    /\ written[2].x = <<248, 255>>

(***************************************************************************)
(* Claims about the structured serializer (specification SpecSer).         *)
(***************************************************************************)
\* the finalized output in the writer's slice
Output == SubSeq(swr.buf, 1, sres.ret)

\* the finalized output of serializing u alone into a slice of its size
EncodingOf(u, P) ==
    LET r == RunWrites(DeBytesWriter_new(Zeros(SizeCalc_serialize(u))),
                       Serializer_serialize(u, P))
        z == DeBytesWriter_finalize(r.w)
    IN  SubSeq(z.w.buf, 1, z.ret)

RECURSIVE ConcatEncodings(_, _)
ConcatEncodings(fs, P) ==
    IF fs = <<>> THEN <<>> ELSE EncodingOf(Head(fs), P) \o ConcatEncodings(Tail(fs), P)

\* the comparison of two values of one type: integers and bools numerically,
\* None before Some, tuples and structs field by field
RECURSIVE ValCmp(_, _)
RECURSIVE FieldsCmp(_, _)
ValCmp(a, u) ==
    CASE a.k \in {"int", "bool"} -> IntCmp(a.n, u.n)
      [] a.k = "bytes" -> LexCmp(a.b, u.b)
      [] a.k \in {"none", "some"} ->
            IF a.k # u.k THEN (IF a.k = "none" THEN -1 ELSE 1)
            ELSE FieldsCmp(a.f, u.f)
      [] a.k = "variant" ->
            IF a.n # u.n THEN IntCmp(a.n, u.n) ELSE FieldsCmp(a.f, u.f)
      [] OTHER -> FieldsCmp(a.f, u.f)

FieldsCmp(fs, gs) ==
    IF fs = <<>> /\ gs = <<>> THEN 0
    ELSE IF fs = <<>> THEN -1
    ELSE IF gs = <<>> THEN 1
    ELSE IF ValCmp(Head(fs), Head(gs)) # 0 THEN ValCmp(Head(fs), Head(gs))
    ELSE FieldsCmp(Tail(fs), Tail(gs))

\* a type all of whose encodings have one length and lie in the head:
\* integers, bools, and options and tuples of such
RECURSIVE FixedWidth(_)
FixedWidth(T) ==
    CASE T.k \in {"int", "bool"} -> TRUE
      [] T.k \in {"option", "tuple"} -> \A i \in 1..Len(T.f) : FixedWidth(T.f[i])
      [] OTHER -> FALSE

\* the tuple in the state is encoded as its fields' encodings in declaration
\* order, and compares with every other value of its type as the bytes do
TupleOrderHolds ==
    /\ Output = ConcatEncodings(sval.v.f, Params(sval.p))
    /\ \A u \in ValuesOf(sval.t, 0) :
          LexCmp(Output, EncodingOf(u, Params(sval.p))) = ValCmp(sval.v, u)

\* C2: for every tuple/struct type and any two of its values, serialized
\* under AscendingOrder, the encoding is the concatenation of the field
\* encodings in declaration order and the bytewise comparison of two
\* encodings has the sign of the field-by-field comparison of the values.
C2_TupleOrderPreserved ==
    (pc = "finalized" /\ sval.p = "AscendingOrder" /\ sval.t.k = "tuple") =>
        TupleOrderHolds

\* the struct ("b", 255u8) has been serialized: its bytes sort after those of
\* ("bb", 0u8), the struct itself before, and its bytes are not its fields'
\* encodings one after the other
C2_FailingInput ==
    /\ pc = "finalized"
    /\ sval.p = "AscendingOrder"
    /\ sval.v = TupleVal(<<BytesVal(<<98>>), IntVal(1, FALSE, 255)>>)
    /\ Output = <<98, 255, 3>>
    /\ LET u == TupleVal(<<BytesVal(<<98, 98>>), IntVal(1, FALSE, 0)>>)
       IN  /\ u \in ValuesOf(sval.t, 0)
           /\ EncodingOf(u, AscendingOrder) = <<98, 98, 0, 5>>
           /\ ValCmp(sval.v, u) = -1
           /\ LexCmp(Output, EncodingOf(u, AscendingOrder)) = 1
    /\ ConcatEncodings(sval.v.f, AscendingOrder) = <<98, 3, 255>>

\* where C2 does hold: the tuple/struct types whose fields are integers or
\* bools, or options, tuples or structs of these
FixedWidthTupleOrderPreserved ==
    (pc = "finalized" /\ sval.p = "AscendingOrder" /\ sval.t.k = "tuple"
        /\ FixedWidth(sval.t)) =>
        TupleOrderHolds

\* the sequence lengths handed to write_len, in call order
RECURSIVE WrittenLens(_)
WrittenLens(ops) ==
    IF ops = <<>> THEN <<>>
    ELSE (IF Head(ops).len >= 0 THEN <<Head(ops).len>> ELSE <<>>) \o WrittenLens(Tail(ops))

\* C5: under AscendingOrder, deserializing the finalized output of
\* serializing v with v's type returns v, the lengths read from the tail are
\* the lengths written, in the order they were written, and the reader is
\* left exhausted.
C5_RoundTrip ==
    (pc = "done" /\ sval.p = "AscendingOrder") =>
        /\ dval.res = "Ok"
        /\ dval.v = sval.v
        /\ dval.lens = WrittenLens(Serializer_serialize(sval.v, Params(sval.p)))
        /\ srd = <<>>

\* a sequence of two byte buffers, one with a two-byte length, written into a
\* slice one byte too large, has been read back
C5_Witness ==
    /\ pc = "done"
    /\ sval.p = "AscendingOrder"
    /\ sval.v = SeqVal(<<BytesVal(Zeros(LongLen)), BytesVal(<<98>>)>>)
    /\ Len(swr.buf) = ssize + 1
    /\ dval.lens = <<2, LongLen, 1>>

\* C6: the size SizeCalc computes for v equals the number of bytes (head
\* plus tail) the Serializer of the same preset writes for v; serializing
\* into a slice of exactly that size succeeds, ends with head = tail
\* (is_complete is Ok), and finalize returns that size.
C6_SizeCalcExact ==
    /\ (pc = "serialized" /\ sres.res = "Ok") =>
          swr.head + (Len(swr.buf) - swr.tail) = ssize
    /\ (pc = "serialized" /\ Len(swr.buf) < ssize) => sres.res = "BufferOverflow"
    /\ (pc = "serialized" /\ Len(swr.buf) = ssize) =>
          /\ sres.res = "Ok"
          /\ swr.head = swr.tail
          /\ DeBytesWriter_is_complete(swr) = "Ok"
    /\ (pc = "finalized" /\ Len(swr.buf) = ssize) => sres.ret = ssize

\* a struct of a string, an enum variant with a two-byte tag and a sequence
\* has been serialized into a slice of its calculated size and finalized
C6_Witness ==
    /\ pc = "finalized"
    /\ Len(swr.buf) = ssize
    /\ sval.v.k = "tuple"
    /\ Len(sval.v.f) = 3
    /\ sval.v.f[1].b = <<98, 98>>
    /\ sval.v.f[2].n = 128
    /\ Len(sval.v.f[3].f) = 2
    /\ swr.tail < Len(swr.buf)
    /\ sres.ret = ssize

\* the varint of a length below 2^14, as the byte layout documents it: one
\* byte (n << 1) | 1, or two bytes holding (n << 2) | 2 little-endian
ExpectedLenVarint(n) ==
    IF n < 128 THEN <<2 * n + 1>>
    ELSE <<(4 * n + 2) % 256, (4 * n + 2) \div 256>>

\* the length varint as it lies at the tail: varu_to_writer hands its first
\* byte and then the remaining bytes to WriteToTail, so the first byte ends
\* up last
TailLenVarint(n) ==
    IF n < 128 THEN <<2 * n + 1>>
    ELSE <<(4 * n + 2) \div 256, (4 * n + 2) % 256>>

\* C20 as stated: under AscendingOrder a byte buffer or string is written
\* raw at the head and the varint of its length at the tail, so that the
\* finalized output is the head bytes followed by the length varint.
C20_HeadThenLengthVarint ==
    (pc = "finalized" /\ sval.p = "AscendingOrder" /\ sval.v.k = "bytes") =>
        Output = sval.v.b \o ExpectedLenVarint(Len(sval.v.b))

\* C20, amended: under AscendingOrder a byte buffer or string is written raw
\* at the head and the varint of its length at the tail, so that the
\* finalized output is the head bytes followed by the length varint when
\* that is one byte (lengths below 128), and by the varint's remaining bytes
\* and then its first byte when it is longer; the struct (u16 = 1, "abc") is
\* 00 01 61 62 63 07 and the empty string is 01.
C20_RawBytesThenTailLength ==
    /\ (pc = "serialized" /\ sres.res = "Ok" /\ sval.p = "AscendingOrder"
            /\ sval.v.k = "bytes") =>
          /\ SubSeq(swr.buf, 1, swr.head) = sval.v.b
          /\ SubSeq(swr.buf, swr.tail + 1, Len(swr.buf)) = TailLenVarint(Len(sval.v.b))
    /\ (pc = "finalized" /\ sval.p = "AscendingOrder" /\ sval.v.k = "bytes") =>
          Output = sval.v.b \o TailLenVarint(Len(sval.v.b))
    /\ (pc = "finalized" /\ sval.p = "AscendingOrder"
            /\ sval.t = TTuple(<<TBytes, TInt(1, FALSE)>>)) =>
          Output = sval.v.f[1].b \o <<sval.v.f[2].n>>
                      \o TailLenVarint(Len(sval.v.f[1].b))
    /\ EncodingOf(TupleVal(<<IntVal(2, FALSE, 1), BytesVal(<<97, 98, 99>>)>>),
                  AscendingOrder) = <<0, 1, 97, 98, 99, 7>>
    /\ EncodingOf(BytesVal(<<>>), AscendingOrder) = <<1>>

\* a byte buffer of LongLen zeros has been serialized and finalized: its
\* two-byte length varint lies at the end with its first byte last
C20_FailingInput ==
    /\ pc = "finalized"
    /\ sval.p = "AscendingOrder"
    /\ sval.v = BytesVal(Zeros(LongLen))
    /\ Output = Zeros(LongLen) \o TailLenVarint(LongLen)
    /\ TailLenVarint(LongLen) # ExpectedLenVarint(LongLen)

\* C11: the Descending serialization of a value is the bitwise complement
\* of its Ascending serialization over the whole buffer, head bytes and tail
\* metadata alike, and deserializing it under Descending returns the value;
\* FF FE 9E 9D 9C F8 deserializes under Descending to (1, "abc").
C11_DescendingIsInvertedWhole ==
    /\ (pc = "encoded" /\ sval.p = "Descending") =>
          /\ sres.res = "Ok"
          /\ vecw = Complement(EncodingOf(sval.v, AscendingOrder))
    /\ (pc = "encoded" /\ sval.p = "Ascending") =>
          vecw = EncodingOf(sval.v, AscendingOrder)
    /\ pc = "decoded" => (dval.res = "Ok" /\ dval.v = sval.v)
    /\ \A dbg \in BOOLEAN :
          LET r == de_from_bytes_ordered(TTuple(<<TInt(2, FALSE), TBytes>>),
                                         <<255, 254, 158, 157, 156, 248>>, "Descending", dbg)
          IN  r.res = "Ok"
                /\ r.v = TupleVal(<<IntVal(2, FALSE, 1), BytesVal(<<97, 98, 99>>)>>)

\* a struct of a string, a variant with a two-byte tag and a sequence has
\* gone through the Descending entry points
C11_Witness ==
    /\ pc = "decoded"
    /\ sval.p = "Descending"
    /\ sval.v.k = "tuple"
    /\ Len(sval.v.f) = 3
    /\ sval.v.f[1].b = <<98>>
    /\ sval.v.f[2].n = 128
    /\ Len(sval.v.f[3].f) = 1
    /\ dval.v = sval.v

\* the smallest L in 1..limit with v < 2^(7 * L), or limit + 1 if there is none
SmallestLen(v, limit) ==
    IF \E L \in 1..limit : WordBitLen(v) <= 7 * L
    THEN CHOOSE L \in 1..limit :
            WordBitLen(v) <= 7 * L /\ \A M \in 1..(L - 1) : WordBitLen(v) > 7 * M
    ELSE limit + 1

\* C19: varu_encoded_len(v) is the smallest L in 1..8 with v < 2^(7L) and 9
\* from 2^56 on (u32: the smallest L in 1..4, and 5 from 2^28 on); the encoder
\* writes exactly L bytes, and the first byte b0 has L - 1 trailing zeros
\* (b0 is 00 in the 9-byte u64 form and F0 in the 5-byte u32 form).
C19_EncodedLen ==
    \A k \in 1..Len(written) :
        LET a == written[k]
            special == (a.bits \div 8) + 1
        IN  a.kind = "varu" =>
              /\ a.len = SmallestLen(a.v, special - 1)
              /\ Len(a.enc) = a.len
              /\ trailing_zeros(a.enc[1]) + 1 = a.len
              /\ (a.bits = 64 /\ a.len = 9) => a.enc[1] = 0
              /\ (a.bits = 32 /\ a.len = 5) => a.enc[1] = 240

\* 2^56 has been written by the 64-bit encoder: nine bytes
C19_Witness ==
    /\ Len(written) = 1
    /\ written[1].kind = "varu"
    /\ written[1].bits = 64
    /\ written[1].v = [i \in 1..64 |-> IF i = 57 THEN 1 ELSE 0]
    /\ written[1].enc = <<0, 0, 0, 0, 0, 0, 0, 0, 1>>

\* C12: decoding what the varint encoder of a width wrote, with the decoder
\* of that width, returns the value and the encoded length, also when other
\* bytes follow the encoding.
C12_VarintRoundTrip ==
    (Len(written) = 1 /\ Len(outs) = 1 /\ written[1].kind = "varu"
        /\ outs[1].bits = written[1].bits) =>
          /\ outs[1].res = "Ok"
          /\ outs[1].v = written[1].v
          /\ outs[1].len = written[1].len
          /\ outs[1].how = "reader" => rd = SubSeq(vecw, written[1].len + 1, Len(vecw))

\* u64::MAX, followed by other bytes, has been decoded from the slice
C12_Witness ==
    /\ Len(written) = 1
    /\ written[1].kind = "varu"
    /\ written[1].v = [i \in 1..64 |-> 1]
    /\ Len(vecw) = 11
    /\ Len(outs) = 1
    /\ outs[1].how = "slice"
    /\ outs[1].bits = 64
    /\ outs[1].len = 9

\* a u32 read as a u64
ZeroExtend(v) == [i \in 1..64 |-> IF i <= Len(v) THEN v[i] ELSE 0]

\* C13: what the 32-bit encoder wrote for v, also for v >= 2^28 (five bytes,
\* the first F0), decodes under the 64-bit decoder to v with the same length.
C13_U64ReadsU32 ==
    (Len(written) = 1 /\ Len(outs) = 1 /\ written[1].kind = "varu"
        /\ written[1].bits = 32 /\ outs[1].bits = 64) =>
          /\ outs[1].res = "Ok"
          /\ outs[1].v = ZeroExtend(written[1].v)
          /\ outs[1].len = written[1].len

\* 2^28 written by the 32-bit encoder is F0 00 00 00 10; the 64-bit decoder
\* reads five bytes and returns (0x10000000F0 >> 5) = 2^31 + 7
C13_FailingInput ==
    /\ Len(written) = 1
    /\ written[1].kind = "varu"
    /\ written[1].bits = 32
    /\ written[1].v = [i \in 1..32 |-> IF i = 29 THEN 1 ELSE 0]
    /\ vecw = <<240, 0, 0, 0, 16>>
    /\ Len(outs) = 1
    /\ outs[1].bits = 64
    /\ outs[1].res = "Ok"
    /\ outs[1].len = 5
    /\ outs[1].v = [i \in 1..64 |-> IF i \in {1, 2, 3, 32} THEN 1 ELSE 0]

\* below 2^28 the 64-bit decoder does read what the 32-bit encoder wrote
U64ReadsSmallU32 ==
    (Len(written) = 1 /\ Len(outs) = 1 /\ written[1].kind = "varu"
        /\ written[1].bits = 32 /\ outs[1].bits = 64 /\ written[1].len < 5) =>
          /\ outs[1].res = "Ok"
          /\ outs[1].v = ZeroExtend(written[1].v)
          /\ outs[1].len = written[1].len

\* the sign bit of a float given as the big-endian bytes of its bits
FloatNegative(x) == x[1] >= 128

FloatMagnitude(x) == <<x[1] % 128>> \o Tail(x)

\* the order of the claim: negative floats by decreasing magnitude, then -0.0,
\* then +0.0, then positive floats by increasing magnitude
FloatCmp(x, y) ==
    IF FloatNegative(x) /\ ~FloatNegative(y) THEN -1
    ELSE IF ~FloatNegative(x) /\ FloatNegative(y) THEN 1
    ELSE IF FloatNegative(x) THEN LexCmp(FloatMagnitude(y), FloatMagnitude(x))
    ELSE LexCmp(FloatMagnitude(x), FloatMagnitude(y))

\* C15: a float of bits b is encoded as b XOR ((b >> (N-1)) | MIN_INT),
\* big-endian: all bits flipped for a negative float, the sign bit flipped
\* for a positive one; the Ascending encodings compare as negative values
\* by decreasing magnitude (-infinity first), -0.0 strictly before +0.0,
\* positive values by increasing magnitude, +infinity before positive NaN,
\* and the Descending encodings compare exactly reversed.
C15_FloatOrder ==
    /\ \A k \in 1..Len(written) :
          (written[k].kind = "float" /\ written[k].ord = "Ascending") =>
              written[k].enc = IF FloatNegative(written[k].x)
                               THEN Complement(written[k].x)
                               ELSE <<written[k].x[1] + 128>> \o Tail(written[k].x)
    /\ \A p \in WrittenPairs :
        LET a == written[p[1]]
            b == written[p[2]]
        IN  (a.kind = "float" /\ b.kind = "float" /\ a.ord = b.ord) =>
                /\ a.ord = "Ascending" => LexCmp(a.enc, b.enc) = FloatCmp(a.x, b.x)
                /\ a.ord = "Descending" => LexCmp(a.enc, b.enc) = FloatCmp(b.x, a.x)

\* -0.0 and +0.0 as f32, both Ascending: 7F FF FF FF sorts before 80 00 00 00
C15_Witness ==
    /\ Len(written) = 2
    /\ written[1].kind = "float"
    /\ written[1].ord = "Ascending"
    /\ written[2].ord = "Ascending"
    /\ written[1].x = <<128, 0, 0, 0>>
    /\ written[2].x = <<0, 0, 0, 0>>
    /\ written[1].enc = <<127, 255, 255, 255>>
    /\ written[2].enc = <<128, 0, 0, 0>>
    /\ LexCmp(written[1].enc, written[2].enc) = -1

\* C14: a primitive value (integer, bool, f32/f64 as bits) serialized
\* Ascending at the head and Descending at the tail of one DeBytesWriter is,
\* after finalize, read back unchanged from the head (Ascending) and from the
\* tail through ReadFromTail (Descending) of one DeBytesReader, which is
\* then exhausted.
C14_PrimitiveRoundTrip ==
    /\ (Len(written) = 2 /\ op.name = "write_tail") =>
          /\ op.res = "Ok"
          /\ wr.head = Len(written[1].enc)
          /\ wr.tail = PrimBuf - Len(written[2].enc)
    /\ (nfin = 1 /\ Len(written) = 2) =>
          /\ op.ret = 2 * written[1].t.w
          /\ SubSeq(wr.buf, 1, op.ret) = written[1].enc \o written[2].enc
    /\ \A i \in 1..Len(outs) :
          (Len(written) = 2 /\ nfin = 1) =>
              /\ outs[i].res = "Ok"
              /\ outs[i].out = written[i].x
    /\ (Len(written) = 2 /\ nfin = 1 /\ Len(outs) = 2) => rd = <<>>

\* f32 -1.0 (BF 80 00 00): 40 7F FF FF at the head, the complemented
\* Descending form BF 80 00 00 at the tail, both read back as -1.0
C14_Witness ==
    /\ nfin = 1
    /\ Len(written) = 2
    /\ Len(outs) = 2
    /\ written[1].kind = "float"
    /\ written[1].x = <<191, 128, 0, 0>>
    /\ written[1].enc = <<64, 127, 255, 255>>
    /\ written[2].enc = <<191, 128, 0, 0>>
    /\ outs[1].out = <<191, 128, 0, 0>>
    /\ outs[2].out = <<191, 128, 0, 0>>

\* C17: deserialize_bytes_to_vec of serialize_bytes(x, O) under the same
\* order O returns x, for strings of 0x00, 0x01, 0x07, 0xF8, 0xFE, 0xFF and
\* for escaped encodings themselves; bytes_length gives the length of x; so
\* escaping twice and unescaping twice returns the original string.
C17_EscapeRoundTrip ==
    /\ \A i \in 1..Len(outs) :
          LET w == written[Len(written) + 1 - i]
          IN  /\ outs[i].res = "Ok"
              /\ outs[i].out = w.x
              /\ outs[i].cap = Len(w.x)
    /\ (Len(written) = 2 /\ Len(outs) = 2) =>
          /\ written[2].x = written[1].enc
          /\ outs[1].out = written[1].enc
          /\ outs[2].out = written[1].x

\* F8 01 (the Ascending terminator as data) escaped to F8 FF 01 F8 01, that
\* escaped to F8 FF FF 01 F8 FF 01 F8 01, and unescaped twice back to F8 01
C17_Witness ==
    /\ Len(written) = 2
    /\ Len(outs) = 2
    /\ written[1].ord = "Ascending"
    /\ written[1].x = <<248, 1>>
    /\ written[1].enc = <<248, 255, 1, 248, 1>>
    /\ written[2].enc = <<248, 255, 255, 1, 248, 255, 1, 248, 1>>
    /\ outs[1].out = <<248, 255, 1, 248, 1>>
    /\ outs[2].out = <<248, 1>>

(***************************************************************************)
(* Further claims about the double-ended writer (specification Spec).      *)
(***************************************************************************)
\* C29: a write or write_tail that returns Err(BufferOverflow) leaves head,
\* tail and every byte of the slice unchanged; a successful write changes only
\* head and the bytes in [head..head+n), which become the argument; a
\* successful write_tail changes only tail and the bytes in [tail-n..tail),
\* which become the argument.
C29_WriteFrame ==
    [][/\ (op'.name \in {"write", "write_tail"} /\ op'.res = "BufferOverflow") => wr' = wr
       /\ (op'.name = "write" /\ op'.res = "Ok") =>
             /\ wr'.tail = wr.tail
             /\ wr'.head = wr.head + Len(op'.arg)
             /\ Len(wr'.buf) = Len(wr.buf)
             /\ \A i \in 1..Len(wr.buf) :
                   wr'.buf[i] = IF i > wr.head /\ i <= wr.head + Len(op'.arg)
                                THEN op'.arg[i - wr.head] ELSE wr.buf[i]
       /\ (op'.name = "write_tail" /\ op'.res = "Ok") =>
             /\ wr'.head = wr.head
             /\ wr'.tail = wr.tail - Len(op'.arg)
             /\ Len(wr'.buf) = Len(wr.buf)
             /\ \A i \in 1..Len(wr.buf) :
                   wr'.buf[i] = IF i > wr.tail - Len(op'.arg) /\ i <= wr.tail
                                THEN op'.arg[i - (wr.tail - Len(op'.arg))] ELSE wr.buf[i]
      ]_vars

\* a two-byte head write that overflowed with one byte of gap left between
\* a head chunk and a tail chunk: both chunks are still in place
C29_Witness ==
    /\ op.name = "write"
    /\ op.res = "BufferOverflow"
    /\ Len(op.arg) = 2
    /\ wr.head > 0
    /\ wr.tail = wr.head + 1
    /\ wr.tail < Len(wr.buf)
    /\ SubSeq(wr.buf, 1, wr.head) = headLog
    /\ SubSeq(wr.buf, wr.tail + 1, Len(wr.buf)) = tailLog
    /\ nfin = 0

\* C30: finalize is idempotent: a finalize that directly follows a finalize
\* returns the same data length and leaves the data region [0..length)
\* unchanged.
C30_FinalizeIdempotent ==
    [][(op.name = "finalize" /\ op'.name = "finalize") =>
          /\ op'.ret = op.ret
          /\ SubSeq(wr'.buf, 1, op.ret) = SubSeq(wr.buf, 1, op.ret)]_vars

\* a second finalize on a slice that the writes did not fill: the data is
\* still in place, the length returned is the length of the whole slice
C30_FailingInput ==
    /\ nfin = 2
    /\ op.name = "finalize"
    /\ Len(headLog) > 0
    /\ Len(tailLog) > 0
    /\ Len(headLog) + Len(tailLog) < Len(wr.buf)
    /\ SubSeq(wr.buf, 1, Len(headLog) + Len(tailLog)) = headLog \o tailLog
    /\ op.ret = Len(wr.buf)

(***************************************************************************)
(* Claims about interleaved writes and reads (specification SpecRW).       *)
(***************************************************************************)
\* the chunks of one end in write order, and the slices one kind of read
\* returned in read order
ChunksOf(kind) == SelectSeq(written, LAMBDA c : c.kind = kind)

RECURSIVE ConcatBytes(_)
ConcatBytes(chunks) ==
    IF chunks = <<>> THEN <<>> ELSE chunks[1].enc \o ConcatBytes(Tail(chunks))

RECURSIVE ConcatReversed(_)
ConcatReversed(chunks) ==
    IF chunks = <<>> THEN <<>> ELSE ConcatReversed(Tail(chunks)) \o chunks[1].enc

RECURSIVE ConcatReads(_)
ConcatReads(reads) ==
    IF reads = <<>> THEN <<>> ELSE reads[1].bytes \o ConcatReads(Tail(reads))

\* C24: after any interleaving of successful head writes h1..hm and tail
\* writes t1..tk the slice holds h1||..||hm from offset 0 and tk||..||t1 up
\* to its end; a reader over the filled slice returns, however head and tail
\* reads interleave, the head bytes in write order through read and the tail
\* chunks in write order (t1 first) through read_tail, and is_complete is Ok
\* once everything has been read.
C24_InterleavedLayout ==
    /\ SubSeq(wr.buf, 1, wr.head) = ConcatBytes(ChunksOf("head"))
    /\ SubSeq(wr.buf, wr.tail + 1, Len(wr.buf)) = ConcatReversed(ChunksOf("tail"))
    /\ rdOpen =>
          LET H  == ConcatBytes(ChunksOf("head"))
              T  == ChunksOf("tail")
              hr == vecw
              tr == outs
          IN  /\ Len(hr) <= Len(H) => hr = SubSeq(H, 1, Len(hr))
              /\ \A k \in 1..Len(tr) :
                    (/\ k <= Len(T)
                     /\ \A j \in 1..k : Len(tr[j].bytes) = Len(T[j].enc))
                        => tr[k].bytes = T[k].enc
              /\ (op.name = "is_complete"
                    /\ Len(hr) + Len(ConcatReads(tr)) = Len(wr.buf)) => op.res = "Ok"
              /\ (op.name = "is_complete" /\ op.res = "Ok") =>
                    Len(hr) + Len(ConcatReads(tr)) = Len(wr.buf)

\* the pattern of test_debuffer on four bytes: head, tail, head, tail
\* written; then a head read, both tail chunks in write order, the last head
\* byte, and is_complete
C24_Witness ==
    /\ rdOpen
    /\ op.name = "is_complete"
    /\ op.res = "Ok"
    /\ written = <<[kind |-> "head", enc |-> <<1>>], [kind |-> "tail", enc |-> <<2>>],
                  [kind |-> "head", enc |-> <<3>>], [kind |-> "tail", enc |-> <<4>>]>>
    /\ wr.buf = <<1, 3, 4, 2>>
    /\ vecw = <<1, 3>>
    /\ outs = <<[how |-> "read_tail", bytes |-> <<2>>], [how |-> "read_tail", bytes |-> <<4>>]>>

\* C28: read(n, f) and read_tail(n, f) on a DeBytesReader shrink the
\* remaining buffer by exactly n bytes, from the front respectively the back,
\* when n <= remaining and f returns Ok; with n > remaining they return
\* Err(PrematureEndOfInput) without calling f; whenever they return an error
\* the remaining buffer is unchanged.
C28_ReadFrame ==
    [][op'.name \in {"read", "read_tail"} =>
          /\ (op'.ret <= Len(rd) /\ op'.f = "ok") =>
                /\ op'.res = "Ok"
                /\ op'.called
                /\ Len(rd') = Len(rd) - op'.ret
                /\ op'.name = "read" =>
                      (rd' = SubSeq(rd, op'.ret + 1, Len(rd))
                          /\ op'.arg = SubSeq(rd, 1, op'.ret))
                /\ op'.name = "read_tail" =>
                      (rd' = SubSeq(rd, 1, Len(rd) - op'.ret)
                          /\ op'.arg = SubSeq(rd, Len(rd) - op'.ret + 1, Len(rd)))
          /\ op'.ret > Len(rd) => (op'.res = "PrematureEndOfInput" /\ ~op'.called)
          /\ op'.res # "Ok" => rd' = rd
          /\ (op'.ret <= Len(rd) /\ op'.f = "err") => (op'.called /\ op'.res # "Ok")
      ]_vars

\* a read_tail whose inspector failed on a reader that had already been read
\* from both ends and still holds two bytes
C28_Witness ==
    /\ rdOpen
    /\ op.name = "read_tail"
    /\ op.res = "InvalidUtf8Encoding"
    /\ op.called
    /\ op.ret = 2
    /\ Len(rd) = 2
    /\ Len(vecw) = 1
    /\ Len(outs) = 1

\* C23: with a reader positioned at serialize_bytes(x, O) followed by
\* arbitrary bytes, bytes_length returns len(x) and leaves the reader where
\* it was, so that a following deserialize_bytes_to_writer decodes x.
C23_BytesLengthKeepsReader ==
    /\ pc \in {"measured", "decoded"} =>
          sres = [res |-> "Ok", ret |-> Len(written[1].x)]
    /\ pc = "measured" => rd = vecw
    /\ pc = "decoded" => outs = <<[res |-> "Ok", out |-> written[1].x]>>

\* x = F8 01 escaped Descending (07 00 FE 07 FE), followed by the Descending
\* terminator pair as trailing bytes: length 2, then decoded to F8 01
C23_Witness ==
    /\ pc = "decoded"
    /\ written[1].ord = "Descending"
    /\ written[1].x = <<248, 1>>
    /\ vecw = <<7, 0, 254, 7, 254, 7, 254>>
    /\ sres.ret = 2
    /\ outs[1].out = <<248, 1>>

(***************************************************************************)
(* Claims about decoding input that no encoder wrote (specification        *)
(* SpecMal).                                                               *)
(***************************************************************************)
\* the positions of the START bytes of input s that are not followed by ESC
OpenStarts(s, E) ==
    {i \in 1..Len(s) : s[i] = E.start /\ (i = Len(s) \/ s[i + 1] # E.esc)}

\* the first of them
FirstOpenStart(s, E) ==
    CHOOSE i \in OpenStarts(s, E) : \A j \in OpenStarts(s, E) : i <= j

AnnouncedLen(first_byte) ==
    1 + (CHOOSE k \in 0..8 : /\ first_byte % (2 ^ k) = 0
                             /\ (k = 8 \/ first_byte % (2 ^ (k + 1)) # 0))

C22_VaruToSliceAnySlice ==
    \A i \in 1..Len(outs) :
        LET o   == outs[i]
            len == VarUInt_varu_encoded_len(o.v)
            w   == VarUInt_varu_to_writer(o.v)
        IN  Len(o.slice) >= len
                => /\ o.res = "Ok"
                   /\ o.ret = len
                   /\ SubSeq(vecw, 1, len) = w[1] \o w[2]

\* 1u64 (one byte long) encoded into a slice of one byte
C22_FailingInput ==
    /\ Len(outs) = 1
    /\ outs[1].bits = 64
    /\ outs[1].v = WordOfNat(1, 64)
    /\ outs[1].slice = <<0>>
    /\ VarUInt_varu_encoded_len(outs[1].v) = 1
    /\ outs[1].res = "panic"

\* C25: a u64 varint encoded through WriteToTail(DeBytesWriter) lies at the
\* end of the buffer as its remaining bytes followed by its first byte, so the
\* byte that determines the length is the last byte of the varint at the
\* tail; varu_from_reader through ReadFromTail over the same buffer returns
\* the value, whatever was encoded at or decoded from the head before or after
C25_TailVarintRoundTrip ==
    \A i \in 1..Len(written) :
        (written[i].kind = "tail" /\ written[i].res = "Ok")
            => LET v   == written[i].v
                   len == VarUInt_varu_encoded_len(v)
                   s   == VarUInt_varu_to_writer(v)
                   n   == Len(wr.buf)
               IN  /\ wr.tail = n - len
                   /\ SubSeq(wr.buf, n - len + 1, n) = s[2] \o s[1]
                   /\ varu_decoded_len(wr.buf[n]) = len
                   /\ \A j \in 1..Len(outs) :
                         outs[j].kind = "tail"
                             => outs[j].res = "Ok" /\ outs[j].v = v

\* 11 at the head, 256 (two bytes: 02 04) through WriteToTail, 300 at the head; 11
\* is decoded from the head, then 256 through ReadFromTail
C25_Witness ==
    /\ written = <<[kind |-> "head", v |-> WordOfNat(11, 64), res |-> "Ok"],
                   [kind |-> "tail", v |-> WordOfNat(256, 64), res |-> "Ok"],
                   [kind |-> "head", v |-> WordOfNat(300, 64), res |-> "Ok"]>>
    /\ outs = <<[kind |-> "head", v |-> WordOfNat(11, 64), res |-> "Ok"],
                [kind |-> "tail", v |-> WordOfNat(256, 64), res |-> "Ok"]>>
    /\ wr.buf[WithBufferLen] = 2
    /\ wr.buf[WithBufferLen - 1] = 4

====
